---- MODULE Spec2Model ----
(***************************************************************************)
(* A model of the live-session engine of jaws: the wire codec (wsmsg.go),  *)
(* the transport pumps (ws.go), the per-connection process loop and        *)
(* handler dispatcher (Request.process, Request.eventCaller), the element  *)
(* registry (ui.go) and the broadcast hub.                                 *)
(*                                                                         *)
(* Strings that the codec looks into are sequences of one-character        *)
(* strings; BAD stands for one byte that is not valid UTF-8.               *)
(***************************************************************************)
EXTENDS Integers, Sequences, FiniteSets, TLC

\* ------------------------------------------------------------------------
\* Bounds
\* ------------------------------------------------------------------------
MaxTail == 4
MaxData == 2
MaxJid == 12
ChSize == 1
MaxMsgs == 2
MaxFaults == 1
MaxElems == 2
MaxTags == 2

\* ------------------------------------------------------------------------
\* Characters
\* ------------------------------------------------------------------------
TAB == "\t"
NL == "\n"
QUOTE == "\""
BSL == "\\"
BAD == "<ff>"

VARIABLES
  cPhase,    \* codec: which step of the codec scenario has run
  cMsg,      \* codec: the wsMsg handed to Append
  cFrame,    \* codec: the frame handed to wsParse
  cOut       \* codec: what wsParse returned

VARIABLES
  chCap,      \* [conn -> capacity the connection's channels were made with]
  elems,      \* [conn -> registry]: registered id -> "fn" or "nil" (Request.elems)
  value,      \* [conn -> the application value the input handler guards]
  jawsDone,   \* the process-wide shutdown signal (Jaws.Done() closed)
  ctxDone,    \* [conn -> the connection's context is cancelled]
  subs,       \* the hub's subscriber set
  bcastCh,    \* [conn -> contents of its broadcast channel]
  outbound,   \* [conn -> contents of outboundMsgCh]
  outClosed,  \* [conn -> outboundMsgCh is closed]
  eventCall,  \* [conn -> contents of eventCallCh]
  callClosed, \* [conn -> eventCallCh is closed]
  proc,       \* [conn -> where Request.process stands]
  sel,        \* [conn -> the select case process took last]
  cur,        \* [conn -> the message process holds]
  ec,         \* [conn -> where Request.eventCaller stands]
  ecCall,     \* [conn -> the call eventCaller holds]
  rd,         \* [conn -> where wsReader stands]
  rdMsg,      \* [conn -> the message wsReader is handing off]
  rdDropped,  \* [conn -> number of frames wsReader read and did not hand on]
  wr,         \* [conn -> where wsWriter stands]
  wire,       \* [conn -> the last frame wsWriter wrote]
  nMsgs,      \* number of messages sent, broadcast or read so far
  nFaults,    \* number of shutdowns, cancellations and transport failures so far
  nRead,      \* [conn -> number of frames read from the transport]
  unsub,      \* [conn -> number of Jaws.unsubscribe calls for its channel]
  outcome,    \* [conn -> what the last pass of process did with its message, or why it returned]
  lastSeq     \* [conn -> arrival number of the last client event whose handler started]

VARIABLES
  uElem       \* UI: the element the last Request.UI call got from newElementLocked (0: nil)

VARIABLES
  snd,        \* [conn -> where a caller of Request.Send stands: idle, or waiting in its select]
  sndMsg,     \* [conn -> the message that caller offers on rq.sendCh]
  sndRes      \* [conn -> what the last Request.Send returned]

VARIABLES
  remoteIP,   \* rq.remoteIP of the request of connection 1
  startHr,    \* the HTTP request the last Request.start was called with
  startRes    \* what that call returned: nil or err (none: not called yet)

VARIABLES
  srv,        \* [conn -> ServeHTTP: where it stands (at), whether Accept gave a websocket (ws),
              \*  its err, the frame it passed to ws.Write (wrote), the text it closed with (closed)]
  ctxCause    \* [conn -> the error rq.cancel was called with]

VARIABLES
  regOp,      \* registry: the last call that wrote Request.elems, with its arguments
  regJid      \* registry: the jid that call returned

VARIABLES
  uElems,     \* registry: rq.elems, the elements in jid order
  tagMap,     \* registry: rq.tagMap, tag -> the jids indexed under it
  uValue,     \* registry: the value the input elements show
  uDirty,     \* registry: the tags of the last dirty mark
  uRendered,  \* registry: the jids the last dirty mark rendered, in order
  uFrames     \* registry: the frames the last dirty mark sent

VARIABLES
  tUi,        \* typed input: the element under test: how it was made (via), its value type (kind),
              \*  whether it has an EventFn of its own (legacy)
  tStored,    \* typed input: the value the typed handler or setter keeps
  tDirty,     \* typed input: the last event marked the element's tag dirty
  tEvt,       \* typed input: the command of the last event
  tIn,        \* typed input: the payload of the last event
  tCalled,    \* typed input: what the last event called: none, typed (handler or setter), eventfn
  tRet        \* typed input: the error the last event returned

VARIABLES
  rqf,        \* [conn -> the fields of its Request: Jaws, JawsKey, connectFn, Initial, Context,
              \*  session]
  pool,       \* the Requests requestPool.Get can return
  sessReqs,   \* the Requests the session holds
  rqPrev      \* [conn -> its Request held a handler or a ConnectFn when recycle was last called]

VARIABLES
  xHeap,      \* tag expansion: the values the tag refers to, [node -> value]; node 1 is the tag
  xOut        \* tag expansion: what MustTagExpand gave: result, error, the value it panicked with

codecVars == <<cPhase, cMsg, cFrame, cOut>>
typedVars == <<tUi, tStored, tDirty, tEvt, tIn, tCalled, tRet>>
expandVars == <<xHeap, xOut>>
fnVars == <<typedVars, expandVars>>
pureVars == <<codecVars, fnVars>>
poolVars == <<rqf, pool, sessReqs, rqPrev>>
sideVars == <<pureVars, poolVars>>
envVars == <<nMsgs, nFaults, nRead>>
hubVars == <<subs, bcastCh>>
procVars == <<proc, sel, cur, outcome, unsub>>
callerVars == <<ec, ecCall, lastSeq>>
readerVars == <<rd, rdMsg, rdDropped>>
writerVars == <<wr, wire>>
connVars == <<chCap, elems, value, jawsDone, ctxDone, hubVars, outbound, outClosed, eventCall,
              callClosed, procVars, callerVars, readerVars, writerVars, envVars>>
uiState == <<uElems, tagMap, uValue, uDirty, uRendered, uFrames, uElem>>
regVars == <<regOp, regJid>>
sendVars == <<snd, sndMsg, sndRes>>
startVars == <<remoteIP, startHr, startRes>>
srvVars == <<srv, ctxCause>>
uiVars == <<uiState, regVars, sendVars, startVars, srvVars>>
vars == <<sideVars, connVars, uiVars>>

\* ------------------------------------------------------------------------
\* Sequence helpers with Go's zero-based indexing
\* ------------------------------------------------------------------------
\* bytes.IndexByte: the zero-based index of the first c in s, or -1.
IndexByte(s, c) ==
  IF \E i \in 1..Len(s) : s[i] = c
  THEN (CHOOSE i \in 1..Len(s) : s[i] = c /\ \A j \in 1..(i-1) : s[j] # c) - 1
  ELSE -1

\* Go's s[lo:hi].
Slice(s, lo, hi) == SubSeq(s, lo + 1, hi)

\* Go's s[i].
At(s, i) == s[i + 1]

SeqsUpTo(S, n) == UNION {[1..k -> S] : k \in 0..n}

\* ------------------------------------------------------------------------
\* The command enumeration (package what)
\* ------------------------------------------------------------------------
WhatInvalid == "invalid"

WhatNames ==
  [Input      |-> <<"I","n","p","u","t">>,
   Click      |-> <<"C","l","i","c","k">>,
   Trigger    |-> <<"T","r","i","g","g","e","r">>,
   Value      |-> <<"V","a","l","u","e">>,
   Inner      |-> <<"I","n","n","e","r">>,
   SetAttr    |-> <<"S","e","t","A","t","t","r">>,
   RemoveAttr |-> <<"R","e","m","o","v","e","A","t","t","r">>,
   Alert      |-> <<"A","l","e","r","t">>,
   Redirect   |-> <<"R","e","d","i","r","e","c","t">>,
   Reload     |-> <<"R","e","l","o","a","d">>,
   Ping       |-> <<"P","i","n","g">>]

Whats == DOMAIN WhatNames

WhatIsValid(w) == w \in Whats

WhatString(w) == IF w \in Whats THEN WhatNames[w] ELSE <<>>

WhatParse(s) ==
  IF \E w \in Whats : WhatNames[w] = s
  THEN CHOOSE w \in Whats : WhatNames[w] = s
  ELSE WhatInvalid

\* ------------------------------------------------------------------------
\* Jid text form
\* ------------------------------------------------------------------------
JidPrefix == <<"J","i","d",".">>

Digit(d) == <<"0","1","2","3","4","5","6","7","8","9">>[d + 1]

RECURSIVE Digits(_)
Digits(n) == IF n < 10 THEN <<Digit(n)>> ELSE Digits(n \div 10) \o <<Digit(n % 10)>>

JidAppend(jid) == JidPrefix \o Digits(jid)

IsDigit(c) == c \in {"0","1","2","3","4","5","6","7","8","9"}

DigitValue(c) == CHOOSE d \in 0..9 : Digit(d) = c

RECURSIVE ParseDigits(_, _)
ParseDigits(s, acc) ==
  IF s = <<>> THEN acc ELSE ParseDigits(Tail(s), acc * 10 + DigitValue(Head(s)))

JidParseString(s) ==
  IF /\ Len(s) > Len(JidPrefix)
     /\ SubSeq(s, 1, Len(JidPrefix)) = JidPrefix
     /\ \A i \in (Len(JidPrefix) + 1)..Len(s) : IsDigit(s[i])
  THEN ParseDigits(SubSeq(s, Len(JidPrefix) + 1, Len(s)), 0)
  ELSE 0

\* ------------------------------------------------------------------------
\* strconv.AppendQuote and strconv.Unquote, bytes.ToValidUTF8
\* ------------------------------------------------------------------------
QuoteChar(c) ==
  CASE c = QUOTE -> <<BSL, QUOTE>>
    [] c = BSL   -> <<BSL, BSL>>
    [] c = NL    -> <<BSL, "n">>
    [] c = TAB   -> <<BSL, "t">>
    [] c = BAD   -> <<BSL, "x", "f", "f">>
    [] OTHER     -> <<c>>

RECURSIVE QuoteBody(_)
QuoteBody(s) == IF s = <<>> THEN <<>> ELSE QuoteChar(Head(s)) \o QuoteBody(Tail(s))

AppendQuote(b, s) == b \o <<QUOTE>> \o QuoteBody(s) \o <<QUOTE>>

\* The body of a double-quoted literal, unescaped: [ok, s].
RECURSIVE UnquoteBody(_, _)
UnquoteBody(s, acc) ==
  IF s = <<>> THEN [ok |-> TRUE, s |-> acc]
  ELSE IF Head(s) = QUOTE \/ Head(s) = NL THEN [ok |-> FALSE, s |-> <<>>]
  ELSE IF Head(s) # BSL THEN UnquoteBody(Tail(s), Append(acc, Head(s)))
  ELSE IF Len(s) < 2 THEN [ok |-> FALSE, s |-> <<>>]
  ELSE IF s[2] = QUOTE THEN UnquoteBody(SubSeq(s, 3, Len(s)), Append(acc, QUOTE))
  ELSE IF s[2] = BSL THEN UnquoteBody(SubSeq(s, 3, Len(s)), Append(acc, BSL))
  ELSE IF s[2] = "n" THEN UnquoteBody(SubSeq(s, 3, Len(s)), Append(acc, NL))
  ELSE IF s[2] = "t" THEN UnquoteBody(SubSeq(s, 3, Len(s)), Append(acc, TAB))
  ELSE IF s[2] = "x" /\ Len(s) >= 4 /\ s[3] = "f" /\ s[4] = "f"
       THEN UnquoteBody(SubSeq(s, 5, Len(s)), Append(acc, BAD))
  ELSE [ok |-> FALSE, s |-> <<>>]

\* strconv.Unquote of a literal that starts with a double quote.
Unquote(s) ==
  IF Len(s) < 2 \/ s[1] # QUOTE \/ s[Len(s)] # QUOTE
  THEN [ok |-> FALSE, s |-> <<>>]
  ELSE UnquoteBody(SubSeq(s, 2, Len(s) - 1), <<>>)

\* bytes.ToValidUTF8(txt, nil): every invalid byte is removed.
ToValidUTF8(txt) == SelectSeq(txt, LAMBDA c : c # BAD)

\* ------------------------------------------------------------------------
\* wsMsg
\* ------------------------------------------------------------------------
ZeroWsMsg == [Data |-> <<>>, Jid |-> 0, What |-> WhatInvalid]

IsValid(m) == WhatIsValid(m.What)

wsAppend(b, m) ==
  LET b1 == b \o WhatString(m.What) \o <<TAB>>
      b2 == IF m.Jid >= 0
            THEN (IF m.Jid > 0 THEN b1 \o JidAppend(m.Jid) ELSE b1) \o <<TAB>>
            ELSE b1
      b3 == IF Len(m.Data) > 0 THEN AppendQuote(b2, m.Data) ELSE b2
  IN  b3 \o <<NL>>

Format(m) == wsAppend(<<>>, m)

NotOk == [ok |-> FALSE, panic |-> FALSE, msg |-> ZeroWsMsg]
Panic == [ok |-> FALSE, panic |-> TRUE, msg |-> ZeroWsMsg]

\* Variant of HasEOL: only the length is looked at.
HasEOL_NonEmpty(txt) == Len(txt) > 0

\* len(txt) > 0 && txt[len(txt)-1] == '\n'
HasEOL(txt) == Len(txt) > 0 /\ At(txt, Len(txt) - 1) = NL

\* wsParse: [ok, panic, msg]; panic is an index or slice bound out of range.
wsParse(raw) ==
  LET txt == ToValidUTF8(raw)
      n   == Len(txt)
  IN
  IF ~HasEOL(txt) THEN NotOk
  ELSE
  LET nl1 == IndexByte(txt, TAB) IN
  IF nl1 < 0 THEN NotOk
  ELSE
  LET rel == IndexByte(Slice(txt, nl1 + 1, n), TAB) IN
  IF rel < 0 THEN NotOk
  ELSE
  LET nl2 == rel + nl1 + 1
      wht == WhatParse(Slice(txt, 0, nl1))
  IN
  IF ~WhatIsValid(wht) THEN NotOk
  ELSE IF nl2 + 1 > n - 1 \/ nl2 + 1 >= n THEN Panic
  ELSE
  LET data == Slice(txt, nl2 + 1, n - 1) IN
  IF At(txt, nl2 + 1) = QUOTE
  THEN LET u == Unquote(data) IN
       IF ~u.ok THEN NotOk
       ELSE [ok |-> TRUE, panic |-> FALSE,
             msg |-> [Data |-> u.s, Jid |-> JidParseString(Slice(txt, nl1 + 1, nl2)),
                      What |-> wht]]
  ELSE [ok |-> TRUE, panic |-> FALSE,
        msg |-> [Data |-> data, Jid |-> JidParseString(Slice(txt, nl1 + 1, nl2)),
                 What |-> wht]]

\* html.EscapeString
EscapeChar(c) ==
  CASE c = "<"   -> <<"&","l","t",";">>
    [] c = ">"   -> <<"&","g","t",";">>
    [] c = "&"   -> <<"&","a","m","p",";">>
    [] c = "'"   -> <<"&","#","3","9",";">>
    [] c = QUOTE -> <<"&","#","3","4",";">>
    [] OTHER     -> <<c>>

RECURSIVE EscapeString(_)
EscapeString(s) == IF s = <<>> THEN <<>> ELSE EscapeChar(Head(s)) \o EscapeString(Tail(s))

\* wsMsg.FillAlert
FillAlert(err) ==
  [Data |-> <<"d","a","n","g","e","r",NL>> \o EscapeString(err), Jid |-> 0, What |-> "Alert"]

\* ------------------------------------------------------------------------
\* Connections, messages and the registry (Request)
\* ------------------------------------------------------------------------
Conns == {1, 2}

\* Message: Elem, What, Data and the origin connection (0 is nil).  seq is
\* the arrival number wsReader's frames carry (0 for every other message).
Msg(elem, what, from) ==
  [Elem |-> elem, What |-> what, Data |-> <<"b">>, from |-> from, seq |-> 0]

\* A nil *Message: what a closed channel or a done signal leaves in msg.
NilMsg == [Elem |-> "", What |-> "nil", Data |-> <<>>, from |-> 0, seq |-> 0]

NoErr == <<>>
ErrText == <<"m", "<">>
Errors == {NoErr, ErrText}

metaIds == {" reload", " ping", " redirect", " alert"}

\* Variant of GetEventFn: an id that is not registered is reported as
\* registered, with the handler of element "1".
GetEventFn_AnyId(c, jid) ==
  [fn |-> elems[c][IF jid \in DOMAIN elems[c] THEN jid ELSE "1"], ok |-> TRUE]

\* Variant of GetEventFn: only the entries of the map count as registered.
GetEventFn_RegistryOnly(c, jid) ==
  IF jid \in DOMAIN elems[c]
  THEN [fn |-> elems[c][jid], ok |-> TRUE]
  ELSE [fn |-> "nil", ok |-> FALSE]

\* Request.GetEventFn: [fn, ok]
GetEventFn(c, jid) ==
  IF jid \in DOMAIN elems[c]
  THEN [fn |-> elems[c][jid], ok |-> TRUE]
  ELSE [fn |-> "nil", ok |-> jid \in metaIds]

\* Variant of makeAlertDangerMessage: the error text is not escaped.
makeAlertDangerMessage_Unescaped(err) ==
  IF err # NoErr
  THEN [Elem |-> " alert", What |-> "danger", Data |-> err, from |-> 0, seq |-> 0]
  ELSE NilMsg

\* makeAlertDangerMessage: nil for a nil error
makeAlertDangerMessage(err) ==
  IF err # NoErr
  THEN [Elem |-> " alert", What |-> "danger", Data |-> EscapeString(err), from |-> 0,
        seq |-> 0]
  ELSE NilMsg

\* The wsMsg a Message is written to the transport as.
JidOf(elem) == IF IsDigit(elem) THEN DigitValue(elem) ELSE 0

WhatOf(what) ==
  CASE what = "value"   -> "Value"
    [] what = "inner"   -> "Inner"
    [] what = "trigger" -> "Trigger"
    [] what = "input"   -> "Input"
    [] what = "click"   -> "Click"
    [] OTHER            -> WhatInvalid

wsMsgOf(m) ==
  IF m.Elem = " alert"
  THEN [Data |-> <<"d","a","n","g","e","r",NL>> \o m.Data, Jid |-> 0, What |-> "Alert"]
  ELSE [Data |-> m.Data, Jid |-> JidOf(m.Elem), What |-> WhatOf(m.What)]

\* cap(outboundMsgCh): Request.defaultChSize gives the channels
\* 8 + 4*len(elems) slots when the connection starts; the model scales that
\* down to ChSize.
Cap(c) == chCap[c]

\* ------------------------------------------------------------------------
\* What the application and the client hand to a connection
\* ------------------------------------------------------------------------
\* Connection 1 is given every kind of input; connection 2, the bystander,
\* is given state updates only and its transport stays quiet.
DirectMsgs(c) ==
  IF c = 1
  THEN {Msg("1", "value", 0), Msg("9", "value", 0), Msg("1", "value", c),
        Msg("1", "hook", 0)}
  ELSE {Msg("1", "value", 0)}

BroadcastMsgs == {Msg("1", "trigger", 0), Msg("1", "value", 0)}

IncomingMsgs(c) ==
  IF c = 1
  THEN {Msg("1", "input", 0), Msg("2", "click", 0), Msg("9", "input", 0)}
  ELSE {}

Faulty(c) == c = 1

\* The transport of connection 2 is stalled: its client sends nothing and
\* takes nothing, so wsReader stays in ws.Read and wsWriter is never served.
Stalled(c) == c = 2

InitElems == [c \in Conns |-> [j \in {"1", "2"} |-> IF j = "1" THEN "fn" ELSE "nil"]]

InitValue == <<"f">>

\* ServeHTTP before websocket.Accept, and once it has started the tasks.
Accepting == [at |-> "accept", ws |-> FALSE, err |-> NoErr, wrote |-> <<>>, closed |-> <<>>]

Serving == [at |-> "serving", ws |-> TRUE, err |-> NoErr, wrote |-> <<>>, closed |-> <<>>]

\* The state once ServeHTTP has subscribed and started wsReader, wsWriter,
\* eventCaller and process on the connections in started; the others are about
\* to be served. pend[c] holds the client events
\* connection c has read and not finished: the handler of the first is running
\* and the others wait in eventCallCh.
ConnServe(caps, out, regs, pend, started) ==
  /\ chCap = caps
  /\ elems = regs
  /\ value = [c \in Conns |-> InitValue]
  /\ jawsDone = FALSE
  /\ ctxDone = [c \in Conns |-> FALSE]
  /\ subs = started
  /\ bcastCh = [c \in Conns |-> <<>>]
  /\ outbound = out
  /\ outClosed = [c \in Conns |-> FALSE]
  /\ eventCall = [c \in Conns |-> IF pend[c] = <<>> THEN <<>> ELSE Tail(pend[c])]
  /\ callClosed = [c \in Conns |-> FALSE]
  /\ proc = [c \in Conns |-> IF c \in started THEN "run" ELSE "new"]
  /\ sel = [c \in Conns |-> "none"]
  /\ cur = [c \in Conns |-> NilMsg]
  /\ ec = [c \in Conns |-> IF c \notin started THEN "new"
                           ELSE IF pend[c] = <<>> THEN "wait" ELSE "call"]
  /\ ecCall = [c \in Conns |-> IF pend[c] = <<>> THEN NilMsg ELSE Head(pend[c])]
  /\ rd = [c \in Conns |-> IF c \in started THEN "read" ELSE "new"]
  /\ rdMsg = [c \in Conns |-> NilMsg]
  /\ rdDropped = [c \in Conns |-> 0]
  /\ wr = [c \in Conns |-> IF c \in started THEN "run" ELSE "new"]
  /\ wire = [c \in Conns |-> <<>>]
  /\ nMsgs = 0
  /\ nFaults = 0
  /\ nRead = [c \in Conns |-> Len(pend[c])]
  /\ unsub = [c \in Conns |-> 0]
  /\ outcome = [c \in Conns |-> "none"]
  /\ lastSeq = [c \in Conns |-> IF pend[c] = <<>> THEN 0 ELSE 1]
  /\ srv = [c \in Conns |-> IF c \in started THEN Serving ELSE Accepting]
  /\ ctxCause = [c \in Conns |-> NoErr]

ConnPending(caps, out, regs, pend) == ConnServe(caps, out, regs, pend, Conns)

ConnState(caps, out, regs) == ConnPending(caps, out, regs, [c \in Conns |-> <<>>])

ConnStartWith(caps, out) == ConnState(caps, out, InitElems)

\* The state once ServeHTTP has started the tasks: nothing is queued yet.
ConnStart(caps) == ConnStartWith(caps, [c \in Conns |-> <<>>])

InitConn == ConnStart([c \in Conns |-> ChSize])

CodecIdle ==
  /\ cPhase = "idle"
  /\ cMsg = ZeroWsMsg
  /\ cFrame = <<>>
  /\ cOut = NotOk

\* ------------------------------------------------------------------------
\* Typed input values: strconv.ParseFloat, strconv.ParseBool, time.Parse
\* ------------------------------------------------------------------------
\* The error of a failed parse (*strconv.NumError, *time.ParseError).
ErrSyntax == <<"s">>

ParseFailed == [ok |-> FALSE, v |-> "none", err |-> ErrSyntax]

Parsed(v) == [ok |-> TRUE, v |-> v, err |-> NoErr]

\* strconv.ParseBool: the twelve spellings it accepts.
TrueTexts == {<<"1">>, <<"t">>, <<"T">>, <<"T","R","U","E">>, <<"t","r","u","e">>, <<"T","r","u","e">>}

FalseTexts ==
  {<<"0">>, <<"f">>, <<"F">>, <<"F","A","L","S","E">>, <<"f","a","l","s","e">>,
   <<"F","a","l","s","e">>}

ParseBool(str) ==
  IF str \in TrueTexts THEN Parsed(TRUE)
  ELSE IF str \in FalseTexts THEN Parsed(FALSE)
  ELSE ParseFailed

AllDigits(str) == \A i \in 1..Len(str) : IsDigit(str[i])

\* strconv.ParseFloat(val, 64) on decimal text without exponent: an optional
\* sign, digits with at most one point among them, one digit at least. The value
\* is num / 10^scale, negated if neg.
ParseFloat(str) ==
  LET signed == str # <<>> /\ Head(str) \in {"+", "-"}
      body   == IF signed THEN Tail(str) ELSE str
      dot    == IndexByte(body, ".")
      int    == IF dot < 0 THEN body ELSE Slice(body, 0, dot)
      frac   == IF dot < 0 THEN <<>> ELSE Slice(body, dot + 1, Len(body))
  IN
  IF AllDigits(int) /\ AllDigits(frac) /\ Len(int) + Len(frac) > 0
  THEN Parsed([neg |-> signed /\ Head(str) = "-", num |-> ParseDigits(int \o frac, 0),
               scale |-> Len(frac)])
  ELSE ParseFailed

IsLeap(year) == year % 4 = 0 /\ (year % 100 # 0 \/ year % 400 = 0)

\* time.daysIn
daysIn(month, year) ==
  IF month = 2 THEN (IF IsLeap(year) THEN 29 ELSE 28)
  ELSE IF month \in {4, 6, 9, 11} THEN 30 ELSE 31

\* time.Parse(ISO8601, val) with ISO8601 = "2006-01-02": four digits, a dash,
\* two digits, a dash, two digits and nothing after them; the month is 1..12
\* and the day exists in that month.
ParseDate(str) ==
  IF Len(str) # 10 THEN ParseFailed
  ELSE
  LET y == Slice(str, 0, 4)
      m == Slice(str, 5, 7)
      d == Slice(str, 8, 10)
  IN
  IF ~(AllDigits(y) /\ At(str, 4) = "-" /\ AllDigits(m) /\ At(str, 7) = "-" /\ AllDigits(d))
  THEN ParseFailed
  ELSE
  LET year  == ParseDigits(y, 0)
      month == ParseDigits(m, 0)
      day   == ParseDigits(d, 0)
  IN
  IF month < 1 \/ month > 12 THEN ParseFailed
  ELSE IF day < 1 \/ day > daysIn(month, year) THEN ParseFailed
  ELSE Parsed([year |-> year, month |-> month, day |-> day])

ValueKinds == {"float", "bool", "date"}

\* var v float64, var v bool, var v time.Time
ZeroValue(kind) ==
  CASE kind = "float" -> [neg |-> FALSE, num |-> 0, scale |-> 0]
    [] kind = "bool"  -> FALSE
    [] kind = "date"  -> [year |-> 1, month |-> 1, day |-> 1]
    [] kind = "string" -> <<>>

ParseAs(kind, str) ==
  CASE kind = "float" -> ParseFloat(str)
    [] kind = "bool"  -> ParseBool(str)
    [] kind = "date"  -> ParseDate(str)
    [] kind = "string" -> Parsed(str)

\* How the element was made: Request.Float/Bool/Date with a typed handler
\* (maybeInputFloat, maybeInputBool, maybeInputDate), a UiInputBool, or a
\* UiHtml whose tag is a FloatSetter, BoolSetter or TimeSetter; legacy: the
\* element has an EventFn of its own.
TypedUis ==
  {[via |-> "maybe", kind |-> k, legacy |-> FALSE] : k \in ValueKinds}
    \cup {[via |-> "uibool", kind |-> "bool", legacy |-> l] : l \in BOOLEAN}
    \cup {[via |-> "uihtml", kind |-> k, legacy |-> l] : k \in ValueKinds, l \in BOOLEAN}
    \cup {[via |-> "uihtml", kind |-> "string", legacy |-> FALSE]}
    \cup {[via |-> "uitext", kind |-> "string", legacy |-> l] : l \in BOOLEAN}

TypedStart(ui) ==
  /\ tUi = ui
  /\ tStored = ZeroValue(ui.kind)
  /\ tDirty = FALSE
  /\ tEvt = "none"
  /\ tIn = <<>>
  /\ tCalled = "none"
  /\ tRet = NoErr

TypedIdle == TypedStart([via |-> "maybe", kind |-> "bool", legacy |-> FALSE])

\* ------------------------------------------------------------------------
\* Tag values and tagExpand
\* ------------------------------------------------------------------------
\* The limits in tagExpand: l > 10, len(result) > 100.
MaxTagNesting == 10

MaxTagCount == 100

NodeIds == {1, 2, 3}

\* A value of interface{} as tagExpand's type switch sees it: nil; a Tag, which
\* takes the default branch; a string, which is no tag; a []Tag; a
\* []interface{} of other values; a TagGetter and the value its JawsGetTag
\* returns (ret, its own node if it returns itself).
Node(t, name, items, ret) == [t |-> t, name |-> name, items |-> items, ret |-> ret]

NilNode == Node("nil", "", <<>>, 0)

TagNames == {"a", "b"}

Repeat(x, n) == [i \in 1..n |-> x]

NodeValues ==
  {NilNode, Node("tag", "a", <<>>, 0), Node("illegal", "", <<>>, 0)}
    \cup {Node("tags", "", names, 0) :
            names \in {<<>>, <<"a", "b">>, <<"b", "a">>, Repeat("a", MaxTagCount + 1)}}
    \cup {Node("list", "", ids, 0) : ids \in SeqsUpTo(NodeIds, MaxTags)}
    \cup {Node("list", "", Repeat(id, n), 0) :
            id \in NodeIds, n \in {MaxTagCount + 1, MaxTagCount + 2}}
    \cup {Node("getter", "", <<>>, id) : id \in NodeIds}

\* The values a tag may refer to: a slice longer than MaxTags holds values that
\* are no slices and no TagGetters.
Heaps ==
  {heap \in [NodeIds -> NodeValues] :
     \A id \in NodeIds :
       (heap[id].t = "list" /\ Len(heap[id].items) > MaxTags) =>
         heap[heap[id].items[1]].t \notin {"list", "getter"}}

\* A TagGetter appended as itself.
GetterName(id) == <<"g1", "g2", "g3">>[id]

ErrNil == "nil"

ErrTooManyTags == "too many tags"

ErrIllegalTagType == "illegal tag type"

Expanded(result, err) == [res |-> result, err |-> err]

RECURSIVE tagExpand(_, _, _, _), ExpandMembers(_, _, _, _)

\* Variant of tagExpand: the tag a TagGetter returns is appended as it is.
tagExpand_GetterUnexpanded(heap, l, id, result) ==
  IF l > MaxTagNesting \/ Len(result) > MaxTagCount THEN Expanded(result, ErrTooManyTags)
  ELSE
  LET n == heap[id] IN
  CASE n.t = "illegal" -> Expanded(result, ErrIllegalTagType)
    [] n.t = "nil"     -> Expanded(result, ErrNil)
    [] n.t = "tags"    -> Expanded(result \o n.items, ErrNil)
    [] n.t = "getter"  -> Expanded(Append(result, GetterName(n.ret)), ErrNil)
    [] n.t = "list"    -> ExpandMembers(heap, l, n.items, result)
    [] n.t = "tag"     -> Expanded(Append(result, n.name), ErrNil)

\* Variant of tagExpand: past the count limit it returns what it has, without an
\* error.
tagExpand_SilentCount(heap, l, id, result) ==
  IF l > MaxTagNesting THEN Expanded(result, ErrTooManyTags)
  ELSE IF Len(result) > MaxTagCount THEN Expanded(result, ErrNil)
  ELSE
  LET n == heap[id] IN
  CASE n.t = "illegal" -> Expanded(result, ErrIllegalTagType)
    [] n.t = "nil"     -> Expanded(result, ErrNil)
    [] n.t = "tags"    -> Expanded(result \o n.items, ErrNil)
    [] n.t = "getter"  -> IF n.ret # id THEN tagExpand(heap, l + 1, n.ret, result)
                          ELSE Expanded(Append(result, GetterName(id)), ErrNil)
    [] n.t = "list"    -> ExpandMembers(heap, l, n.items, result)
    [] n.t = "tag"     -> Expanded(Append(result, n.name), ErrNil)

\* tagExpand(l, rq, tag, result) with tag the value of node id.
tagExpand(heap, l, id, result) ==
  IF l > MaxTagNesting \/ Len(result) > MaxTagCount THEN Expanded(result, ErrTooManyTags)
  ELSE
  LET n == heap[id] IN
  CASE n.t = "illegal" -> Expanded(result, ErrIllegalTagType)
    [] n.t = "nil"     -> Expanded(result, ErrNil)
    [] n.t = "tags"    -> Expanded(result \o n.items, ErrNil)
    [] n.t = "getter"  -> IF n.ret # id THEN tagExpand(heap, l + 1, n.ret, result)
                          ELSE Expanded(Append(result, GetterName(id)), ErrNil)
    [] n.t = "list"    -> ExpandMembers(heap, l, n.items, result)
    [] n.t = "tag"     -> Expanded(Append(result, n.name), ErrNil)

\* The []interface{} case: for _, v := range data, stopping at the first error.
\* The members are taken from left to right, the left half of the slice before
\* the right half.
ExpandMembers(heap, l, items, result) ==
  IF items = <<>> THEN Expanded(result, ErrNil)
  ELSE IF Len(items) = 1 THEN tagExpand(heap, l + 1, items[1], result)
  ELSE LET mid == Len(items) \div 2
           r   == ExpandMembers(heap, l, SubSeq(items, 1, mid), result)
       IN
       IF r.err # ErrNil THEN r
       ELSE ExpandMembers(heap, l, SubSeq(items, mid + 1, Len(items)), r.res)

\* TagExpand(rq, tag)
TagExpand(heap, id) == tagExpand(heap, 0, id, <<>>)

NotExpanded == [res |-> <<>>, err |-> "none", panic |-> "none"]

\* No call of MustTagExpand made yet.
ExpandIdle ==
  /\ xHeap = [id \in NodeIds |-> NilNode]
  /\ xOut = NotExpanded

PureIdle == TypedIdle /\ ExpandIdle

\* ------------------------------------------------------------------------
\* The fields of a Request and requestPool
\* ------------------------------------------------------------------------
\* make(map[string]EventFn)
EmptyRegistry == [k \in {} |-> "nil"]

\* The Request requestPool's New makes, and the one recycle leaves.
ZeroRequest ==
  [Jaws |-> FALSE, JawsKey |-> 0, connectFn |-> "nil", Initial |-> "nil", Context |-> "nil",
   session |-> 0]

\* A Request in use, with a ConnectFn set.
LiveRequest(c) ==
  [Jaws |-> TRUE, JawsKey |-> c, connectFn |-> "fn", Initial |-> "nil", Context |-> "ctx",
   session |-> 0]

NothingRecycled == [c \in Conns |-> FALSE]

PoolIdle ==
  /\ rqf = [c \in Conns |-> LiveRequest(c)]
  /\ pool = {}
  /\ sessReqs = {}
  /\ rqPrev = NothingRecycled

OtherIdle == PureIdle /\ PoolIdle

SideIdle ==
  /\ uElems = <<>>
  /\ tagMap = <<>>
  /\ uValue = <<"f">>
  /\ uDirty = <<>>
  /\ uRendered = <<>>
  /\ uFrames = <<>>
  /\ uElem = 0
  /\ snd = [c \in Conns |-> "idle"]
  /\ sndMsg = [c \in Conns |-> NilMsg]
  /\ sndRes = [c \in Conns |-> "none"]
  /\ regOp = [op |-> "none", conn |-> 0, jid |-> "", fn |-> "nil"]
  /\ regJid = ""

\* http.Request.RemoteAddr, host and port; NoRequest is the nil *http.Request.
Hosts == {"a", "b"}

Ports == {"80", "81"}

RemoteAddrs == [host : Hosts, port : Ports]

NoRequest == [host |-> "", port |-> ""]

HttpRequests == RemoteAddrs \cup {NoRequest}

\* The nil net.IP.
NilIP == ""

\* The address the remote side is known by: the host without the port.
parseIP(addr) == addr.host

equalIP(a, b) == a = b

\* newRequest: rq.remoteIP is set from the request, if there is one.
RecordIP(hr) == IF hr # NoRequest THEN parseIP(hr) ELSE NilIP

\* The request as newRequest made it from hr; start was not called yet.
StartIdle(hr) ==
  /\ remoteIP = RecordIP(hr)
  /\ startHr = NoRequest
  /\ startRes = "none"

UIIdle == SideIdle /\ StartIdle(NoRequest)

Init == InitConn /\ CodecIdle /\ OtherIdle /\ UIIdle

Done(c) == jawsDone \/ ctxDone[c]

\* ------------------------------------------------------------------------
\* The application and the hub
\* ------------------------------------------------------------------------
\* Jaws.Close: the shutdown signal fires.
Shutdown ==
  /\ ~jawsDone
  /\ nFaults < MaxFaults
  /\ nFaults' = nFaults + 1
  /\ jawsDone' = TRUE
  /\ UNCHANGED <<uiVars, sideVars, chCap, elems, value, ctxDone, hubVars, outbound, outClosed, eventCall,
                 callClosed, procVars, callerVars, readerVars, writerVars, nMsgs, nRead>>

\* The connection's context is cancelled from outside the four tasks.
CancelCtx(c) ==
  /\ ~ctxDone[c]
  /\ Faulty(c)
  /\ nFaults < MaxFaults
  /\ nFaults' = nFaults + 1
  /\ ctxDone' = [ctxDone EXCEPT ![c] = TRUE]
  /\ UNCHANGED <<uiVars, sideVars, chCap, elems, value, jawsDone, hubVars, outbound, outClosed, eventCall,
                 callClosed, procVars, callerVars, readerVars, writerVars, nMsgs, nRead>>

\* The hub's publish: a copy to every subscriber whose channel has room.
Publish(m) ==
  [s \in Conns |->
     IF s \in subs /\ Len(bcastCh[s]) < Cap(s) THEN Append(bcastCh[s], m) ELSE bcastCh[s]]

\* Request.Broadcast on connection p sets the origin and calls
\* Jaws.Broadcast; p = 0 is the application calling Jaws.Broadcast itself.
Broadcast(p, m) ==
  /\ nMsgs < MaxMsgs
  /\ p \in Conns => proc[p] # "done"
  /\ nMsgs' = nMsgs + 1
  /\ bcastCh' = Publish([m EXCEPT !.from = p])
  /\ UNCHANGED <<uiVars, sideVars, chCap, elems, value, jawsDone, ctxDone, subs, outbound, outClosed,
                 eventCall, callClosed, procVars, callerVars, readerVars, writerVars,
                 nFaults, nRead>>

\* ------------------------------------------------------------------------
\* Request.process
\* ------------------------------------------------------------------------
\* Jaws.unsubscribe
Unsubscribe(c) ==
  /\ subs' = subs \ {c}
  /\ unsub' = [unsub EXCEPT ![c] = unsub[c] + 1]

\* Variant of Return: the deferred function does not unsubscribe.
Return_KeepSubscription(c, cause) ==
  /\ UNCHANGED <<subs, unsub>>
  /\ callClosed' = [callClosed EXCEPT ![c] = TRUE]
  /\ proc' = [proc EXCEPT ![c] = "drain"]
  /\ outcome' = [outcome EXCEPT ![c] = cause]
  /\ cur' = [cur EXCEPT ![c] = NilMsg]
  /\ sel' = [sel EXCEPT ![c] = "none"]

\* return: the deferred function unsubscribes, closes eventCallCh and enters
\* its drain loop.
Return(c, cause) ==
  /\ Unsubscribe(c)
  /\ callClosed' = [callClosed EXCEPT ![c] = TRUE]
  /\ proc' = [proc EXCEPT ![c] = "drain"]
  /\ outcome' = [outcome EXCEPT ![c] = cause]
  /\ cur' = [cur EXCEPT ![c] = NilMsg]
  /\ sel' = [sel EXCEPT ![c] = "none"]

\* continue: back to the select, with a fresh msg and incoming.
Continue(c, what) ==
  /\ proc' = [proc EXCEPT ![c] = "run"]
  /\ cur' = [cur EXCEPT ![c] = NilMsg]
  /\ sel' = [sel EXCEPT ![c] = "none"]
  /\ outcome' = [outcome EXCEPT ![c] = what]
  /\ UNCHANGED <<subs, unsub, callClosed>>

\* The select has left a message in msg: the loop body runs on it next.
Received(c, from, m) ==
  /\ proc' = [proc EXCEPT ![c] = "handle"]
  /\ cur' = [cur EXCEPT ![c] = m]
  /\ sel' = [sel EXCEPT ![c] = from]
  /\ outcome' = [outcome EXCEPT ![c] = "none"]
  /\ UNCHANGED <<subs, unsub, callClosed>>

\* The select of the loop takes a done signal: msg is nil, the loop returns.
ProcessSelectDone(c) ==
  /\ proc[c] = "run"
  /\ \/ jawsDone /\ Return(c, "jawsDone")
     \/ ctxDone[c] /\ Return(c, "ctxDone")
  /\ UNCHANGED <<uiVars, sideVars, chCap, elems, value, jawsDone, ctxDone, bcastCh, outbound, outClosed,
                 eventCall, callerVars, readerVars, writerVars, envVars>>

\* The select takes a message from rq.sendCh: Request.Send hands it over.
\* A nil message makes the loop return.
\* Request.Send: the select of a caller that is offering a message.
Sending(c, m) == snd[c] = "waiting" => m = sndMsg[c]

\* rq.sendCh <- msg went through: Send returns true.
SendTaken(c) ==
  /\ snd' = [snd EXCEPT ![c] = "idle"]
  /\ sndMsg' = [sndMsg EXCEPT ![c] = NilMsg]
  /\ sndRes' = [sndRes EXCEPT ![c] = "true"]

ProcessRecvSend(c, m) ==
  /\ proc[c] = "run"
  /\ Sending(c, m)
  /\ nMsgs < MaxMsgs
  /\ nMsgs' = nMsgs + 1
  /\ IF m = NilMsg THEN Return(c, "nilMsg") ELSE Received(c, "send", m)
  /\ SendTaken(c)
  /\ UNCHANGED <<uiState, regVars, startVars, srvVars, sideVars, chCap, elems, value, jawsDone, ctxDone, bcastCh, outbound, outClosed,
                 eventCall, callerVars, readerVars, writerVars, nFaults, nRead>>

\* The select takes a message from broadcastMsgCh.
ProcessRecvBroadcast(c) ==
  /\ proc[c] = "run"
  /\ bcastCh[c] # <<>>
  /\ Received(c, "broadcast", Head(bcastCh[c]))
  /\ bcastCh' = [bcastCh EXCEPT ![c] = Tail(bcastCh[c])]
  /\ UNCHANGED <<uiVars, sideVars, chCap, elems, value, jawsDone, ctxDone, outbound, outClosed,
                 eventCall, callerVars, readerVars, writerVars, envVars>>

\* Variant of ProcessRecvIncoming: the nil the closed incomingMsgCh gives is
\* skipped and the loop goes back to its select.
ProcessRecvIncoming_IgnoresClose(c) ==
  /\ proc[c] = "run"
  /\ \/ /\ rd[c] = "handoff"
        /\ Received(c, "incoming", rdMsg[c])
        /\ rd' = [rd EXCEPT ![c] = "read"]
        /\ rdMsg' = [rdMsg EXCEPT ![c] = NilMsg]
     \/ /\ rd[c] = "done"
        /\ Continue(c, "incomingClosed")
        /\ UNCHANGED <<rd, rdMsg>>
  /\ UNCHANGED <<uiVars, sideVars, chCap, elems, value, jawsDone, ctxDone, bcastCh, outbound, outClosed,
                 eventCall, callerVars, rdDropped, writerVars, envVars>>

\* The select takes from incomingMsgCh: a message wsReader hands over, or
\* nil once wsReader has closed the channel, and then the loop returns.
ProcessRecvIncoming(c) ==
  /\ proc[c] = "run"
  /\ \/ /\ rd[c] = "handoff"
        /\ Received(c, "incoming", rdMsg[c])
        /\ rd' = [rd EXCEPT ![c] = "read"]
        /\ rdMsg' = [rdMsg EXCEPT ![c] = NilMsg]
     \/ /\ rd[c] = "done"
        /\ Return(c, "incomingClosed")
        /\ UNCHANGED <<rd, rdMsg>>
  /\ UNCHANGED <<uiVars, sideVars, chCap, elems, value, jawsDone, ctxDone, bcastCh, outbound, outClosed,
                 eventCall, callerVars, rdDropped, writerVars, envVars>>

\* Variant of IsSelf: the origin is not looked at.
IsSelf_Never(c, m) == FALSE

\* msg.from == rq
IsSelf(c, m) == m.from = c

\* Variant of IsEvent: a trigger message is not taken for an event.
IsEvent_IncomingOnly(c, m) == sel[c] = "incoming"

\* incoming || msg.What == "trigger"
IsEvent(c, m) == sel[c] = "incoming" \/ m.What = "trigger"

\* Variant of Forward: the select has no default case, so a full
\* outboundMsgCh makes the send wait.
Forward_NoDefault(c, m) ==
  \/ /\ Done(c)
     /\ Continue(c, "dropped")
     /\ UNCHANGED outbound
  \/ /\ Len(outbound[c]) < Cap(c)
     /\ outbound' = [outbound EXCEPT ![c] = Append(outbound[c], m)]
     /\ Continue(c, "forwarded")

\* The select around outboundMsgCh <- msg: a ready case is taken, default
\* (return) only when none is ready.
Forward(c, m) ==
  \/ /\ Done(c)
     /\ Continue(c, "dropped")
     /\ UNCHANGED outbound
  \/ /\ Len(outbound[c]) < Cap(c)
     /\ outbound' = [outbound EXCEPT ![c] = Append(outbound[c], m)]
     /\ Continue(c, "forwarded")
  \/ /\ ~Done(c)
     /\ Len(outbound[c]) >= Cap(c)
     /\ Return(c, "outboundFull")
     /\ UNCHANGED outbound

\* Variant of QueueCall: the call is queued whether or not the channel has room.
QueueCall_Grows(c, m) ==
  /\ eventCall' = [eventCall EXCEPT ![c] = Append(eventCall[c], m)]
  /\ Continue(c, "queued")

\* The select around eventCallCh <- eventFnCall{fn, msg}.
QueueCall(c, m) ==
  IF Len(eventCall[c]) < Cap(c)
  THEN /\ eventCall' = [eventCall EXCEPT ![c] = Append(eventCall[c], m)]
       /\ Continue(c, "queued")
  ELSE /\ Return(c, "eventCallFull")
       /\ UNCHANGED eventCall

\* One pass of the loop body on the message the select left in msg.
ProcessHandle(c) ==
  /\ proc[c] = "handle"
  /\ LET m == cur[c]
         g == GetEventFn(c, m.Elem)
     IN
     IF IsSelf(c, m)
     THEN /\ Continue(c, "self")
          /\ UNCHANGED <<outbound, eventCall>>
     ELSE IF ~g.ok
     THEN /\ Continue(c, "unregistered")
          /\ UNCHANGED <<outbound, eventCall>>
     ELSE IF IsEvent(c, m)
     THEN /\ IF g.fn # "nil"
             THEN QueueCall(c, m)
             ELSE Continue(c, "noHandler") /\ UNCHANGED eventCall
          /\ UNCHANGED outbound
     ELSE IF m.What = "hook"
     THEN /\ IF g.fn # "nil"
             THEN /\ proc' = [proc EXCEPT ![c] = "hook"]
                  /\ UNCHANGED <<outcome, cur, sel, subs, unsub, callClosed>>
             ELSE Return(c, "panic")
          /\ UNCHANGED <<outbound, eventCall>>
     ELSE /\ Forward(c, m)
          /\ UNCHANGED eventCall
  /\ UNCHANGED <<uiVars, sideVars, chCap, elems, value, jawsDone, ctxDone, bcastCh, outClosed,
                 callerVars, readerVars, writerVars, envVars>>

\* What a handler does to the application value: an input event that is
\* accepted stores its payload.
HandlerValue(c, m, err) == IF m.What = "input" /\ err = NoErr THEN m.Data ELSE value[c]

\* Variant of ProcessHookReturn: what the handler returned is ignored.
ProcessHookReturn_NoAlert(c, err) ==
  /\ proc[c] = "hook"
  /\ value' = [value EXCEPT ![c] = HandlerValue(c, cur[c], err)]
  /\ Continue(c, "hooked")
  /\ UNCHANGED outbound
  /\ UNCHANGED <<uiVars, sideVars, chCap, elems, jawsDone, ctxDone, bcastCh, outClosed, eventCall,
                 callerVars, readerVars, writerVars, envVars>>

\* The handler of a hook message returns on the loop's goroutine; its error
\* goes out as an alert.
ProcessHookReturn(c, err) ==
  /\ proc[c] = "hook"
  /\ value' = [value EXCEPT ![c] = HandlerValue(c, cur[c], err)]
  /\ IF makeAlertDangerMessage(err) # NilMsg
     THEN Forward(c, makeAlertDangerMessage(err))
     ELSE Continue(c, "hooked") /\ UNCHANGED outbound
  /\ UNCHANGED <<uiVars, sideVars, chCap, elems, jawsDone, ctxDone, bcastCh, outClosed, eventCall,
                 callerVars, readerVars, writerVars, envVars>>

\* The drain loop takes a queued call off the closed eventCallCh.
ProcessDrainCall(c) ==
  /\ proc[c] = "drain"
  /\ eventCall[c] # <<>>
  /\ eventCall' = [eventCall EXCEPT ![c] = Tail(eventCall[c])]
  /\ UNCHANGED <<uiVars, sideVars, chCap, elems, value, jawsDone, ctxDone, hubVars, outbound, outClosed,
                 callClosed, procVars, callerVars, readerVars, writerVars, envVars>>

\* The drain loop takes and drops a message from rq.sendCh.
ProcessDrainSend(c, m) ==
  /\ proc[c] = "drain"
  /\ Sending(c, m)
  /\ nMsgs < MaxMsgs
  /\ nMsgs' = nMsgs + 1
  /\ SendTaken(c)
  /\ UNCHANGED <<uiState, regVars, startVars, srvVars, sideVars, chCap, elems, value, jawsDone, ctxDone, hubVars, outbound, outClosed,
                 eventCall, callClosed, procVars, callerVars, readerVars, writerVars,
                 nFaults, nRead>>

\* The drain loop takes and drops a message wsReader hands over.
ProcessDrainIncoming(c) ==
  /\ proc[c] = "drain"
  /\ rd[c] = "handoff"
  /\ rd' = [rd EXCEPT ![c] = "read"]
  /\ rdMsg' = [rdMsg EXCEPT ![c] = NilMsg]
  /\ UNCHANGED <<uiVars, sideVars, chCap, elems, value, jawsDone, ctxDone, hubVars, outbound, outClosed,
                 eventCall, callClosed, procVars, callerVars, rdDropped, writerVars, envVars>>

\* Variant of ProcessDrainDone: the drain loop closes outboundMsgCh without
\* waiting for eventDoneCh.
ProcessDrainDone_NoWait(c) ==
  /\ proc[c] = "drain"
  /\ outClosed' = [outClosed EXCEPT ![c] = TRUE]
  /\ proc' = [proc EXCEPT ![c] = "done"]
  /\ UNCHANGED <<uiVars, sideVars, chCap, elems, value, jawsDone, ctxDone, hubVars, outbound, eventCall,
                 callClosed, sel, cur, outcome, unsub, callerVars, readerVars,
                 writerVars, envVars>>

\* eventDoneCh is closed: close(outboundMsgCh) and return.
ProcessDrainDone(c) ==
  /\ proc[c] = "drain"
  /\ ec[c] = "done"
  /\ outClosed' = [outClosed EXCEPT ![c] = TRUE]
  /\ proc' = [proc EXCEPT ![c] = "done"]
  /\ UNCHANGED <<uiVars, sideVars, chCap, elems, value, jawsDone, ctxDone, hubVars, outbound, eventCall,
                 callClosed, sel, cur, outcome, unsub, callerVars, readerVars,
                 writerVars, envVars>>

\* ------------------------------------------------------------------------
\* Request.eventCaller
\* ------------------------------------------------------------------------
\* Variant of NextCall: the newest queued call is received first.
NextCall_Newest(q) == Len(q)

\* Which queued call the range loop receives: the oldest.
NextCall(q) == 1

RemoveAt(q, i) == SubSeq(q, 1, i - 1) \o SubSeq(q, i + 1, Len(q))

\* Variant of EventCallerRecv: the call stays in eventCallCh when its
\* handler starts.
EventCallerRecv_KeepsCall(c) ==
  /\ ec[c] = "wait"
  /\ eventCall[c] # <<>>
  /\ LET m == eventCall[c][NextCall(eventCall[c])]
     IN /\ ecCall' = [ecCall EXCEPT ![c] = m]
        /\ lastSeq' = [lastSeq EXCEPT ![c] = IF m.seq > 0 THEN m.seq ELSE lastSeq[c]]
  /\ ec' = [ec EXCEPT ![c] = "call"]
  /\ UNCHANGED <<uiVars, sideVars, chCap, elems, value, jawsDone, ctxDone, hubVars, outbound, outClosed,
                 eventCall, callClosed, procVars, readerVars, writerVars, envVars>>

\* Variant of EventCallerRecv: the next call is received while the handler of
\* the one before is still running.
EventCallerRecv_Overlaps(c) ==
  /\ ec[c] \in {"wait", "call"}
  /\ eventCall[c] # <<>>
  /\ LET i == NextCall(eventCall[c])
         m == eventCall[c][i]
     IN /\ ecCall' = [ecCall EXCEPT ![c] = m]
        /\ eventCall' = [eventCall EXCEPT ![c] = RemoveAt(eventCall[c], i)]
        /\ lastSeq' = [lastSeq EXCEPT ![c] = IF m.seq > 0 THEN m.seq ELSE lastSeq[c]]
  /\ ec' = [ec EXCEPT ![c] = "call"]
  /\ UNCHANGED <<uiVars, sideVars, chCap, elems, value, jawsDone, ctxDone, hubVars, outbound, outClosed,
                 callClosed, procVars, readerVars, writerVars, envVars>>

\* for call := range eventCallCh: the next call is received and call.fn starts.
EventCallerRecv(c) ==
  /\ ec[c] = "wait"
  /\ eventCall[c] # <<>>
  /\ LET i == NextCall(eventCall[c])
         m == eventCall[c][i]
     IN /\ ecCall' = [ecCall EXCEPT ![c] = m]
        /\ eventCall' = [eventCall EXCEPT ![c] = RemoveAt(eventCall[c], i)]
        /\ lastSeq' = [lastSeq EXCEPT ![c] = IF m.seq > 0 THEN m.seq ELSE lastSeq[c]]
  /\ ec' = [ec EXCEPT ![c] = "call"]
  /\ UNCHANGED <<uiVars, sideVars, chCap, elems, value, jawsDone, ctxDone, hubVars, outbound, outClosed,
                 callClosed, procVars, readerVars, writerVars, envVars>>

\* Variant of OfferAlert: the alert is sent whether or not the channel has room.
OfferAlert_Overflows(c, err) ==
  [outbound EXCEPT ![c] = Append(outbound[c], makeAlertDangerMessage(err))]

\* The non-blocking send of the alert: dropped when outboundMsgCh is full.
OfferAlert(c, err) ==
  IF Len(outbound[c]) < Cap(c)
  THEN [outbound EXCEPT ![c] = Append(outbound[c], makeAlertDangerMessage(err))]
  ELSE outbound

\* call.fn returns; a non-nil error is offered to outboundMsgCh as an alert.
EventCallerReturn(c, err) ==
  /\ ec[c] = "call"
  /\ value' = [value EXCEPT ![c] = HandlerValue(c, ecCall[c], err)]
  /\ outbound' = IF err # NoErr THEN OfferAlert(c, err) ELSE outbound
  /\ ec' = [ec EXCEPT ![c] = "wait"]
  /\ ecCall' = [ecCall EXCEPT ![c] = NilMsg]
  /\ UNCHANGED <<uiVars, sideVars, chCap, elems, jawsDone, ctxDone, hubVars, outClosed, eventCall,
                 callClosed, procVars, lastSeq, readerVars, writerVars, envVars>>

\* eventCallCh is closed and empty: close(eventDoneCh), return.
EventCallerExit(c) ==
  /\ ec[c] = "wait"
  /\ eventCall[c] = <<>>
  /\ callClosed[c]
  /\ ec' = [ec EXCEPT ![c] = "done"]
  /\ UNCHANGED <<uiVars, sideVars, chCap, elems, value, jawsDone, ctxDone, hubVars, outbound, outClosed,
                 eventCall, callClosed, procVars, ecCall, lastSeq, readerVars, writerVars,
                 envVars>>

\* ------------------------------------------------------------------------
\* wsReader and wsWriter
\* ------------------------------------------------------------------------
\* The errors ws.Read and ws.Write return.
ErrRead == <<"r">>
ErrWrite == <<"w">>

\* Variant of Ccf: the pumps were given a nil CancelCauseFunc.
Ccf_Nil(c, err) == UNCHANGED <<ctxDone, ctxCause>>

\* ccf(err), the context's CancelCauseFunc: the context is cancelled, and the
\* cause is the error of the first call.
Ccf(c, err) ==
  /\ ctxDone' = [ctxDone EXCEPT ![c] = TRUE]
  /\ ctxCause' = [ctxCause EXCEPT ![c] = IF ctxDone[c] THEN ctxCause[c] ELSE err]

\* ws.Read returns a text frame that wsParse accepts.
ReaderRead(c, m) ==
  /\ ~Stalled(c)
  /\ rd[c] = "read"
  /\ wr[c] # "done"
  /\ nMsgs < MaxMsgs
  /\ nMsgs' = nMsgs + 1
  /\ nRead' = [nRead EXCEPT ![c] = nRead[c] + 1]
  /\ rdMsg' = [rdMsg EXCEPT ![c] = [m EXCEPT !.seq = nRead[c] + 1]]
  /\ rd' = [rd EXCEPT ![c] = "handoff"]
  /\ UNCHANGED <<uiVars, sideVars, chCap, elems, value, jawsDone, ctxDone, hubVars, outbound, outClosed,
                 eventCall, callClosed, procVars, callerVars, rdDropped, writerVars, nFaults>>

\* ws.Read fails: ccf(err) cancels the context, incomingMsgCh is closed.
\* It fails once the context is cancelled or the websocket is closed, or when
\* the transport breaks.
ReaderReadError(c) ==
  /\ ~Stalled(c)
  /\ rd[c] = "read"
  /\ \/ (ctxDone[c] \/ wr[c] = "done") /\ UNCHANGED nFaults
     \/ Faulty(c) /\ nFaults < MaxFaults /\ nFaults' = nFaults + 1
  /\ rd' = [rd EXCEPT ![c] = "done"]
  /\ Ccf(c, ErrRead)
  /\ UNCHANGED <<uiState, regVars, sendVars, startVars, srv, sideVars, chCap, elems, value, jawsDone,
                 hubVars, outbound, outClosed,
                 eventCall, callClosed, procVars, callerVars, rdMsg, rdDropped, writerVars, nMsgs,
                 nRead>>

\* The hand-off is given up on ctx.Done() or jawsDoneCh; incomingMsgCh is closed.
ReaderAbort(c) ==
  /\ ~Stalled(c)
  /\ rd[c] = "handoff"
  /\ Done(c)
  /\ rd' = [rd EXCEPT ![c] = "done"]
  /\ rdMsg' = [rdMsg EXCEPT ![c] = NilMsg]
  /\ UNCHANGED <<uiVars, sideVars, chCap, elems, value, jawsDone, ctxDone, hubVars, outbound, outClosed,
                 eventCall, callClosed, procVars, callerVars, rdDropped, writerVars, envVars>>

\* Variant of WriterWrite: the newest message of outboundCh is written.
WriterWrite_Newest(c) ==
  /\ ~Stalled(c)
  /\ wr[c] = "run"
  /\ outbound[c] # <<>>
  /\ outbound' = [outbound EXCEPT ![c] = SubSeq(outbound[c], 1, Len(outbound[c]) - 1)]
  /\ wire' = [wire EXCEPT ![c] = Format(wsMsgOf(outbound[c][Len(outbound[c])]))]
  /\ UNCHANGED <<uiVars, sideVars, chCap, elems, value, jawsDone, ctxDone, hubVars, outClosed, eventCall,
                 callClosed, procVars, callerVars, readerVars, wr, envVars>>

\* A message is taken from outboundCh and written as a frame.
WriterWrite(c) ==
  /\ ~Stalled(c)
  /\ wr[c] = "run"
  /\ outbound[c] # <<>>
  /\ outbound' = [outbound EXCEPT ![c] = Tail(outbound[c])]
  /\ wire' = [wire EXCEPT ![c] = Format(wsMsgOf(Head(outbound[c])))]
  /\ UNCHANGED <<uiVars, sideVars, chCap, elems, value, jawsDone, ctxDone, hubVars, outClosed, eventCall,
                 callClosed, procVars, callerVars, readerVars, wr, envVars>>

\* ws.Write fails: ccf(err) cancels the context, the websocket is closed.
WriterWriteError(c) ==
  /\ ~Stalled(c)
  /\ wr[c] = "run"
  /\ outbound[c] # <<>>
  /\ \/ ctxDone[c] /\ UNCHANGED nFaults
     \/ Faulty(c) /\ nFaults < MaxFaults /\ nFaults' = nFaults + 1
  /\ outbound' = [outbound EXCEPT ![c] = Tail(outbound[c])]
  /\ Ccf(c, ErrWrite)
  /\ wr' = [wr EXCEPT ![c] = "done"]
  /\ UNCHANGED <<uiState, regVars, sendVars, startVars, srv, sideVars, chCap, elems, value, jawsDone,
                 hubVars, outClosed, eventCall,
                 callClosed, procVars, callerVars, readerVars, wire, nMsgs, nRead>>

\* Variant of WriterExit: the select has no case for jawsDoneCh.
WriterExit_NoShutdownCase(c) ==
  /\ ~Stalled(c)
  /\ wr[c] = "run"
  /\ ctxDone[c] \/ (outClosed[c] /\ outbound[c] = <<>>)
  /\ wr' = [wr EXCEPT ![c] = "done"]
  /\ UNCHANGED <<uiVars, sideVars, chCap, elems, value, jawsDone, ctxDone, hubVars, outbound, outClosed,
                 eventCall, callClosed, procVars, callerVars, readerVars, wire, envVars>>

\* ctx.Done(), jawsDoneCh or the closed outboundCh: the websocket is closed.
WriterExit(c) ==
  /\ ~Stalled(c)
  /\ wr[c] = "run"
  /\ Done(c) \/ (outClosed[c] /\ outbound[c] = <<>>)
  /\ wr' = [wr EXCEPT ![c] = "done"]
  /\ UNCHANGED <<uiVars, sideVars, chCap, elems, value, jawsDone, ctxDone, hubVars, outbound, outClosed,
                 eventCall, callClosed, procVars, callerVars, readerVars, wire, envVars>>

Next ==
  \/ Shutdown
  \/ \E c \in Conns : CancelCtx(c)
  \/ \E p \in {0, 1}, m \in BroadcastMsgs : Broadcast(p, m)
  \/ \E c \in Conns : ProcessSelectDone(c)
  \/ \E c \in Conns : \E m \in DirectMsgs(c) : ProcessRecvSend(c, m)
  \/ \E c \in Conns : ProcessRecvBroadcast(c)
  \/ \E c \in Conns : ProcessRecvIncoming(c)
  \/ \E c \in Conns : ProcessHandle(c)
  \/ \E c \in Conns, err \in Errors : ProcessHookReturn(c, err)
  \/ \E c \in Conns : ProcessDrainCall(c)
  \/ \E c \in Conns : \E m \in DirectMsgs(c) : ProcessDrainSend(c, m)
  \/ \E c \in Conns : ProcessDrainIncoming(c)
  \/ \E c \in Conns : ProcessDrainDone(c)
  \/ \E c \in Conns : EventCallerRecv(c)
  \/ \E c \in Conns, err \in Errors : EventCallerReturn(c, err)
  \/ \E c \in Conns : EventCallerExit(c)
  \/ \E c \in Conns : \E m \in IncomingMsgs(c) : ReaderRead(c, m)
  \/ \E c \in Conns : ReaderReadError(c)
  \/ \E c \in Conns : ReaderAbort(c)
  \/ \E c \in Conns : WriterWrite(c)
  \/ \E c \in Conns : WriterWriteError(c)
  \/ \E c \in Conns : WriterExit(c)

Spec == Init /\ [][Next]_vars

\* ------------------------------------------------------------------------
\* One connection under a burst of client events
\* ------------------------------------------------------------------------
\* Connection 1 has channels one slot larger, so that two handler calls can
\* wait in eventCallCh together; the application and connection 2 are quiet.
InitOrder ==
  /\ ConnStart([c \in Conns |-> IF c = 1 THEN ChSize + 1 ELSE ChSize])
  /\ CodecIdle /\ OtherIdle
  /\ UIIdle

NextOrder ==
  \/ \E m \in IncomingMsgs(1) : ReaderRead(1, m)
  \/ ReaderReadError(1)
  \/ ReaderAbort(1)
  \/ CancelCtx(1)
  \/ ProcessSelectDone(1)
  \/ ProcessRecvIncoming(1)
  \/ ProcessHandle(1)
  \/ ProcessDrainCall(1)
  \/ ProcessDrainIncoming(1)
  \/ ProcessDrainDone(1)
  \/ EventCallerRecv(1)
  \/ \E err \in Errors : EventCallerReturn(1, err)
  \/ EventCallerExit(1)
  \/ WriterWrite(1)
  \/ WriterWriteError(1)
  \/ WriterExit(1)

SpecOrder == InitOrder /\ [][NextOrder]_vars

\* ------------------------------------------------------------------------
\* Request.Trigger
\* ------------------------------------------------------------------------
TrigIds == {"1", "2"}

TrigVals == {<<"b">>, <<"c">>}

\* Request.Trigger: a trigger message from connection p for every request.
Trigger(p, id, val) ==
  /\ id # ""
  /\ Broadcast(p, [Msg(id, "trigger", 0) EXCEPT !.Data = val])

\* Two client events of connection 1 are under way: the handler of the first
\* is running, the second waits in eventCallCh.
TrigPending ==
  [c \in Conns |->
     IF c = 1
     THEN << [Msg("1", "input", 0) EXCEPT !.seq = 1], [Msg("1", "input", 0) EXCEPT !.seq = 2] >>
     ELSE <<>>]

InitTrig ==
  /\ ConnPending([c \in Conns |-> ChSize], [c \in Conns |-> <<>>], InitElems, TrigPending)
  /\ CodecIdle /\ OtherIdle
  /\ UIIdle

NextTrig ==
  \/ \E id \in TrigIds, val \in TrigVals : Trigger(2, id, val)
  \/ \E c \in Conns : ProcessRecvBroadcast(c)
  \/ \E c \in Conns : ProcessHandle(c)
  \/ \E c \in Conns : ProcessDrainCall(c)
  \/ \E c \in Conns : ProcessDrainDone(c)
  \/ \E c \in Conns : EventCallerRecv(c)
  \/ \E c \in Conns, err \in Errors : EventCallerReturn(c, err)
  \/ \E c \in Conns : EventCallerExit(c)
  \/ \E c \in Conns : WriterWrite(c)
  \/ \E c \in Conns : WriterExit(c)

\* Every task runs on, and a handler returns.
FairTrig ==
  \A c \in Conns :
    /\ WF_vars(ProcessRecvBroadcast(c))
    /\ WF_vars(ProcessHandle(c))
    /\ WF_vars(ProcessDrainDone(c))
    /\ WF_vars(EventCallerRecv(c))
    /\ WF_vars(\E err \in Errors : EventCallerReturn(c, err))
    /\ WF_vars(EventCallerExit(c))
    /\ WF_vars(WriterWrite(c))
    /\ WF_vars(WriterExit(c))

SpecTrig == InitTrig /\ [][NextTrig]_vars /\ FairTrig

\* ------------------------------------------------------------------------
\* Request.Send and its caller
\* ------------------------------------------------------------------------
SendMsgs == {Msg("1", "value", 0), Msg("9", "value", 0)}

\* Request.Send up to its select: getDoneCh has returned the two done channels.
SendCall(c, m) ==
  /\ snd[c] = "idle"
  /\ snd' = [snd EXCEPT ![c] = "waiting"]
  /\ sndMsg' = [sndMsg EXCEPT ![c] = m]
  /\ UNCHANGED <<sndRes, uiState, regVars, startVars, srvVars, sideVars, connVars>>

\* Variant of SendDone: the done cases report a hand-off.
SendDone_ReturnsTrue(c) ==
  /\ snd[c] = "waiting"
  /\ Done(c)
  /\ SendTaken(c)
  /\ UNCHANGED <<uiState, regVars, startVars, srvVars, sideVars, connVars>>

\* Request.Send: the select takes a done case and Send returns false.
SendDone(c) ==
  /\ snd[c] = "waiting"
  /\ Done(c)
  /\ snd' = [snd EXCEPT ![c] = "idle"]
  /\ sndMsg' = [sndMsg EXCEPT ![c] = NilMsg]
  /\ sndRes' = [sndRes EXCEPT ![c] = "false"]
  /\ UNCHANGED <<uiState, regVars, startVars, srvVars, sideVars, connVars>>

NextSend ==
  \/ \E m \in SendMsgs : SendCall(1, m)
  \/ SendDone(1)
  \/ Shutdown
  \/ CancelCtx(1)
  \/ \E m \in SendMsgs : ProcessRecvSend(1, m)
  \/ ProcessSelectDone(1)
  \/ ProcessHandle(1)
  \/ \E m \in SendMsgs : ProcessDrainSend(1, m)
  \/ ProcessDrainDone(1)
  \/ EventCallerExit(1)
  \/ WriterWrite(1)
  \/ WriterExit(1)

\* A select with a ready case does not wait.
FairSend == WF_vars(SendDone(1))

InitSend == InitConn /\ CodecIdle /\ OtherIdle /\ UIIdle

SpecSend == InitSend /\ [][NextSend]_vars /\ FairSend

\* ------------------------------------------------------------------------
\* The handler registry (Request.elems)
\* ------------------------------------------------------------------------
Handlers == {"nil", "fn", "fn2"}

RegIds == {"", "1", "2"}

\* The ids MakeID can return.
MadeIds == {"g1"}

\* rq.elems[jid] = fn
SetEventFn(reg, jid, fn) ==
  [k \in DOMAIN reg \cup {jid} |-> IF k = jid THEN fn ELSE reg[k]]

\* Variant of RegisterEventFn: the entry is always written.
RegisterEventFn_Overwrite(reg, jid, fn, made) ==
  IF jid # ""
  THEN [elems |-> SetEventFn(reg, jid, fn), jid |-> jid]
  ELSE [elems |-> SetEventFn(reg, made, fn), jid |-> made]

\* Request.RegisterEventFn: [elems, jid]; made is the first id from MakeID
\* that is not registered yet.
RegisterEventFn(reg, jid, fn, made) ==
  IF jid # ""
  THEN IF jid \in DOMAIN reg /\ fn = "nil"
       THEN [elems |-> reg, jid |-> jid]
       ELSE [elems |-> SetEventFn(reg, jid, fn), jid |-> jid]
  ELSE [elems |-> SetEventFn(reg, made, fn), jid |-> made]

\* Request.Register
Register(reg, jid, made) == RegisterEventFn(reg, jid, "nil", made)

\* The application registers a handler, or nil through Register.
CallRegisterEventFn(c, jid, fn) ==
  /\ \E made \in MadeIds :
       /\ jid = "" => made \notin DOMAIN elems[c]
       /\ LET r == IF fn = "nil"
                   THEN Register(elems[c], jid, made)
                   ELSE RegisterEventFn(elems[c], jid, fn, made)
          IN  /\ elems' = [elems EXCEPT ![c] = r.elems]
              /\ regJid' = r.jid
  /\ regOp' = [op |-> "register", conn |-> c, jid |-> jid, fn |-> fn]
  /\ UNCHANGED <<uiState, sendVars, startVars, srvVars, sideVars, chCap, value, jawsDone, ctxDone, hubVars, outbound,
                 outClosed, eventCall, callClosed, procVars, callerVars, readerVars,
                 writerVars, envVars>>

\* Request.SetEventFn
CallSetEventFn(c, jid, fn) ==
  /\ jid # ""
  /\ elems' = [elems EXCEPT ![c] = SetEventFn(elems[c], jid, fn)]
  /\ regJid' = jid
  /\ regOp' = [op |-> "set", conn |-> c, jid |-> jid, fn |-> fn]
  /\ UNCHANGED <<uiState, sendVars, startVars, srvVars, sideVars, chCap, value, jawsDone, ctxDone, hubVars, outbound,
                 outClosed, eventCall, callClosed, procVars, callerVars, readerVars,
                 writerVars, envVars>>

\* The Request holds a handler that is not nil, or a ConnectFn.
HoldsFn(c) == rqf[c].connectFn # "nil" \/ \E k \in DOMAIN elems[c] : elems[c][k] # "nil"

\* Variant of Recycle: the registry and the ConnectFn stay in the Request.
Recycle_KeepsHandlers(c) ==
  /\ \/ srv[c].at = "serving" /\ proc[c] = "done"
     \/ srv[c].at = "recycle"
  /\ rqf' = [rqf EXCEPT ![c] = [ZeroRequest EXCEPT !.connectFn = rqf[c].connectFn]]
  /\ remoteIP' = IF c = 1 THEN NilIP ELSE remoteIP
  /\ sessReqs' = sessReqs \ {c}
  /\ pool' = pool \cup {c}
  /\ rqPrev' = [rqPrev EXCEPT ![c] = HoldsFn(c)]
  /\ regJid' = ""
  /\ regOp' = [op |-> "recycle", conn |-> c, jid |-> "", fn |-> "nil"]
  /\ srv' = [srv EXCEPT ![c].at = IF srv[c].ws /\ srv[c].err # NoErr THEN "close" ELSE "returned"]
  /\ UNCHANGED <<uiState, sendVars, startHr, startRes, ctxCause, pureVars, chCap, elems, value,
                 jawsDone, ctxDone, hubVars, outbound, outClosed, eventCall, callClosed, procVars,
                 callerVars, readerVars, writerVars, envVars>>

\* Request.recycle, the last statement of ServeHTTP: after process has returned,
\* or after rq.cancel on the error paths. The deferred ws.Close of the ConnectFn
\* error path is still to run.
Recycle(c) ==
  /\ \/ srv[c].at = "serving" /\ proc[c] = "done"
     \/ srv[c].at = "recycle"
  /\ rqf' = [rqf EXCEPT ![c] = ZeroRequest]
  /\ remoteIP' = IF c = 1 THEN NilIP ELSE remoteIP
  /\ sessReqs' = sessReqs \ {c}
  /\ elems' = [elems EXCEPT ![c] = EmptyRegistry]
  /\ pool' = pool \cup {c}
  /\ rqPrev' = [rqPrev EXCEPT ![c] = HoldsFn(c)]
  /\ regJid' = ""
  /\ regOp' = [op |-> "recycle", conn |-> c, jid |-> "", fn |-> "nil"]
  /\ srv' = [srv EXCEPT ![c].at = IF srv[c].ws /\ srv[c].err # NoErr THEN "close" ELSE "returned"]
  /\ UNCHANGED <<uiState, sendVars, startHr, startRes, ctxCause, pureVars, chCap, value, jawsDone,
                 ctxDone, hubVars, outbound, outClosed, eventCall, callClosed, procVars,
                 callerVars, readerVars, writerVars, envVars>>

\* Messages for a reserved id and for an element id.
RegMsgs == {Msg(" alert", "danger", 0), Msg("1", "value", 0)}

RegBroadcasts == {Msg(" reload", "reload", 0)}

\* Connection 1 starts with nothing registered.
InitReg ==
  /\ ConnState([c \in Conns |-> ChSize], [c \in Conns |-> <<>>],
               [c \in Conns |-> EmptyRegistry])
  /\ CodecIdle /\ OtherIdle
  /\ UIIdle

NextReg ==
  \/ \E jid \in RegIds, fn \in Handlers : CallRegisterEventFn(1, jid, fn)
  \/ \E jid \in RegIds, fn \in Handlers : CallSetEventFn(1, jid, fn)
  \/ Recycle(1)
  \/ Shutdown
  \/ \E m \in RegBroadcasts : Broadcast(0, m)
  \/ \E m \in RegMsgs : ProcessRecvSend(1, m)
  \/ ProcessRecvBroadcast(1)
  \/ ProcessSelectDone(1)
  \/ ProcessHandle(1)
  \/ ProcessDrainDone(1)
  \/ EventCallerExit(1)
  \/ WriterWrite(1)
  \/ WriterExit(1)

SpecReg == InitReg /\ [][NextReg]_vars

\* ------------------------------------------------------------------------
\* Request.start
\* ------------------------------------------------------------------------
\* Variant of start: the addresses are not compared.
start_AcceptsAll(expectIP, hr) == "nil"

\* Request.start: nil, or the error.
start(expectIP, hr) ==
  LET actualIP == IF hr # NoRequest THEN parseIP(hr) ELSE NilIP IN
    IF equalIP(expectIP, actualIP) THEN "nil" ELSE "err"

\* The websocket request hr arrives for the request of connection 1.
Start(hr) ==
  /\ startHr' = hr
  /\ startRes' = start(remoteIP, hr)
  /\ UNCHANGED <<remoteIP, uiState, regVars, sendVars, srvVars, sideVars, connVars>>

\* The request was made from any HTTP request, or from none.
InitStart ==
  /\ InitConn
  /\ CodecIdle /\ OtherIdle
  /\ SideIdle
  /\ \E hr \in HttpRequests : StartIdle(hr)

NextStart ==
  \/ \E hr \in HttpRequests : Start(hr)
  \/ \E jid \in RegIds, fn \in Handlers : CallRegisterEventFn(1, jid, fn)

SpecStart == InitStart /\ [][NextStart]_vars

\* ------------------------------------------------------------------------
\* wsReader and the frames it does not hand on
\* ------------------------------------------------------------------------
FrameTypes == {"text", "binary"}

GoodFrame == WhatNames.Input \o <<TAB>> \o JidAppend(1) \o <<TAB, QUOTE, "z", QUOTE, NL>>

\* No newline at the end, no second tab, an unknown command, an opening quote
\* that is never closed, and nothing at all.
BadFrames ==
  {WhatNames.Input \o <<TAB>> \o JidAppend(1) \o <<TAB, "z">>,
   WhatNames.Input \o <<TAB>> \o JidAppend(1) \o <<NL>>,
   <<"I","n">> \o <<TAB>> \o JidAppend(1) \o <<TAB, "z", NL>>,
   WhatNames.Input \o <<TAB>> \o JidAppend(1) \o <<TAB, QUOTE, "z", NL>>,
   <<>>}

ClientFrames == BadFrames \cup {GoodFrame}

\* The frame is one wsReader passes over.
Unreadable(typ, txt) == typ # "text" \/ ~wsParse(txt).ok

\* Variant of ReaderReadBad: a frame that cannot be read ends the reader like a
\* failed read.
ReaderReadBad_Cancels(c, typ, txt) ==
  /\ ~Stalled(c)
  /\ rd[c] = "read"
  /\ wr[c] # "done"
  /\ nMsgs < MaxMsgs
  /\ Unreadable(typ, txt)
  /\ nMsgs' = nMsgs + 1
  /\ rdDropped' = [rdDropped EXCEPT ![c] = rdDropped[c] + 1]
  /\ rd' = [rd EXCEPT ![c] = "done"]
  /\ ctxDone' = [ctxDone EXCEPT ![c] = TRUE]
  /\ UNCHANGED <<uiVars, sideVars, chCap, elems, value, jawsDone, hubVars, outbound, outClosed,
                 eventCall, callClosed, procVars, callerVars, rdMsg, writerVars, nFaults,
                 nRead>>

\* wsReader: ws.Read returns a frame that is not text or that wsParse rejects;
\* neither if has an else, and the loop reads again.
ReaderReadBad(c, typ, txt) ==
  /\ ~Stalled(c)
  /\ rd[c] = "read"
  /\ wr[c] # "done"
  /\ nMsgs < MaxMsgs
  /\ Unreadable(typ, txt)
  /\ nMsgs' = nMsgs + 1
  /\ rdDropped' = [rdDropped EXCEPT ![c] = rdDropped[c] + 1]
  /\ UNCHANGED <<uiVars, sideVars, chCap, elems, value, jawsDone, ctxDone, hubVars, outbound,
                 outClosed, eventCall, callClosed, procVars, callerVars, rd, rdMsg,
                 writerVars, nFaults, nRead>>

InitRead == InitConn /\ CodecIdle /\ OtherIdle /\ UIIdle

NextRead ==
  \/ \E typ \in FrameTypes, txt \in ClientFrames : ReaderReadBad(1, typ, txt)
  \/ \E m \in IncomingMsgs(1) : ReaderRead(1, m)
  \/ ReaderReadError(1)
  \/ ProcessRecvIncoming(1)
  \/ ProcessHandle(1)
  \/ ProcessDrainDone(1)
  \/ EventCallerRecv(1)
  \/ \E err \in Errors : EventCallerReturn(1, err)
  \/ EventCallerExit(1)
  \/ WriterWrite(1)
  \/ WriterExit(1)

SpecRead == InitRead /\ [][NextRead]_vars

\* ------------------------------------------------------------------------
\* Request.ServeHTTP
\* ------------------------------------------------------------------------
\* websocket.Accept: a websocket, or an error.
Accept(c, err) ==
  /\ c \notin pool
  /\ srv[c].at = "accept"
  /\ srv' = [srv EXCEPT ![c] = IF err = NoErr
                               THEN [@ EXCEPT !.at = "connect", !.ws = TRUE]
                               ELSE [@ EXCEPT !.at = "cancel", !.err = err]]
  /\ UNCHANGED <<ctxCause, uiState, regVars, sendVars, startVars, sideVars, connVars>>

\* Variant of OnConnect: the subscription is made before ConnectFn is asked.
OnConnect_Subscribes(c, err) ==
  /\ srv[c].at = "connect"
  /\ rqf[c].connectFn = "nil" => err = NoErr
  /\ subs' = subs \cup {c}
  /\ IF err = NoErr
     THEN /\ srv' = [srv EXCEPT ![c].at = "serving"]
          /\ proc' = [proc EXCEPT ![c] = "run"]
          /\ ec' = [ec EXCEPT ![c] = "wait"]
          /\ rd' = [rd EXCEPT ![c] = "read"]
          /\ wr' = [wr EXCEPT ![c] = "run"]
     ELSE /\ srv' = [srv EXCEPT ![c] = [@ EXCEPT !.at = "alert", !.err = err]]
          /\ UNCHANGED <<proc, ec, rd, wr>>
  /\ UNCHANGED <<ctxCause, uiState, regVars, sendVars, startVars, sideVars, chCap, elems, value,
                 jawsDone, ctxDone, bcastCh, outbound, outClosed, eventCall, callClosed, sel,
                 cur, outcome, unsub, ecCall, lastSeq, rdMsg, rdDropped, wire, envVars>>

\* rq.onConnect returns err, nil without a ConnectFn: on nil ServeHTTP subscribes
\* and starts wsReader, wsWriter and process, which starts eventCaller.
OnConnect(c, err) ==
  /\ srv[c].at = "connect"
  /\ rqf[c].connectFn = "nil" => err = NoErr
  /\ IF err = NoErr
     THEN /\ srv' = [srv EXCEPT ![c].at = "serving"]
          /\ subs' = subs \cup {c}
          /\ proc' = [proc EXCEPT ![c] = "run"]
          /\ ec' = [ec EXCEPT ![c] = "wait"]
          /\ rd' = [rd EXCEPT ![c] = "read"]
          /\ wr' = [wr EXCEPT ![c] = "run"]
     ELSE /\ srv' = [srv EXCEPT ![c] = [@ EXCEPT !.at = "alert", !.err = err]]
          /\ UNCHANGED <<subs, proc, ec, rd, wr>>
  /\ UNCHANGED <<ctxCause, uiState, regVars, sendVars, startVars, sideVars, chCap, elems, value,
                 jawsDone, ctxDone, bcastCh, outbound, outClosed, eventCall, callClosed, sel,
                 cur, outcome, unsub, ecCall, lastSeq, rdMsg, rdDropped, wire, envVars>>

\* msg.FillAlert(err) and ws.Write of msg.Append(nil); the result of the write
\* is dropped, and the frame is on the wire if the write went through.
ServeAlert(c, written) ==
  /\ srv[c].at = "alert"
  /\ LET frame == wsAppend(<<>>, FillAlert(srv[c].err)) IN
       /\ srv' = [srv EXCEPT ![c] = [@ EXCEPT !.at = "cancel", !.wrote = frame]]
       /\ wire' = IF written THEN [wire EXCEPT ![c] = frame] ELSE wire
  /\ UNCHANGED <<ctxCause, uiState, regVars, sendVars, startVars, sideVars, chCap, elems, value,
                 jawsDone, ctxDone, hubVars, outbound, outClosed, eventCall, callClosed,
                 procVars, callerVars, readerVars, wr, envVars>>

\* if err != nil: rq.cancel(err) and the log entry.
ServeCancel(c) ==
  /\ srv[c].at = "cancel"
  /\ ctxDone' = [ctxDone EXCEPT ![c] = TRUE]
  /\ ctxCause' = [ctxCause EXCEPT ![c] = IF ctxDone[c] THEN ctxCause[c] ELSE srv[c].err]
  /\ srv' = [srv EXCEPT ![c].at = "recycle"]
  /\ UNCHANGED <<uiState, regVars, sendVars, startVars, sideVars, chCap, elems, value, jawsDone,
                 hubVars, outbound, outClosed, eventCall, callClosed, procVars, callerVars,
                 readerVars, writerVars, envVars>>

\* The deferred ws.Close(websocket.StatusNormalClosure, err.Error()).
ServeClose(c) ==
  /\ srv[c].at = "close"
  /\ srv' = [srv EXCEPT ![c] = [@ EXCEPT !.at = "returned", !.closed = srv[c].err]]
  /\ UNCHANGED <<ctxCause, uiState, regVars, sendVars, startVars, sideVars, connVars>>

\* The page is rendered, and its handlers registered, before the websocket
\* request arrives.
RegisterForPage(c, jid, fn) ==
  /\ c \notin pool
  /\ srv[c].at = "accept"
  /\ CallRegisterEventFn(c, jid, fn)

\* Connection 1 is about to be served; connection 2 is running.
InitConnect ==
  /\ ConnServe([c \in Conns |-> ChSize], [c \in Conns |-> <<>>],
               [c \in Conns |-> EmptyRegistry], [c \in Conns |-> <<>>], {2})
  /\ CodecIdle /\ OtherIdle
  /\ UIIdle

NextConnect ==
  \/ \E jid \in RegIds, fn \in Handlers : RegisterForPage(1, jid, fn)
  \/ \E err \in Errors : Accept(1, err)
  \/ \E err \in Errors : OnConnect(1, err)
  \/ \E written \in BOOLEAN : ServeAlert(1, written)
  \/ ServeCancel(1)
  \/ Recycle(1)
  \/ ServeClose(1)

\* ServeHTTP runs on: none of its statements on the error paths waits.
FairConnect ==
  /\ WF_vars(\E written \in BOOLEAN : ServeAlert(1, written))
  /\ WF_vars(ServeCancel(1))
  /\ WF_vars(Recycle(1))
  /\ WF_vars(ServeClose(1))

SpecConnect == InitConnect /\ [][NextConnect]_vars /\ FairConnect

\* ------------------------------------------------------------------------
\* newRequest and the reuse of a recycled Request
\* ------------------------------------------------------------------------
JawsKeys == {1, 2}

Sessions == {0, 1}

ConnectFns == {"nil", "fn"}

\* Request.SetConnectFn, while the page is made.
SetConnectFn(c, fn) ==
  /\ c \notin pool
  /\ srv[c].at = "accept"
  /\ rqf' = [rqf EXCEPT ![c].connectFn = fn]
  /\ UNCHANGED <<pool, sessReqs, rqPrev, pureVars, connVars, uiVars>>

\* newRequest: requestPool.Get gives a Request that New made or recycle put
\* back; Jaws, JawsKey, Initial and Context are assigned, remoteIP and session
\* only with an HTTP request (session only if one is found, sess # 0), and
\* connectFn and elems are left as they are. The Request is then served by a
\* ServeHTTP call of its own, with a context and channels of its own; the call
\* that recycled it has returned.
NewRequest(c, key, hr, sess) ==
  /\ c \in pool
  /\ srv[c].at \in {"accept", "returned"}
  /\ pool' = pool \ {c}
  /\ rqf' = [rqf EXCEPT ![c] =
               [Jaws |-> TRUE, JawsKey |-> key, connectFn |-> rqf[c].connectFn,
                Initial |-> IF hr = NoRequest THEN "nil" ELSE "hr", Context |-> "ctx",
                session |-> IF hr # NoRequest /\ sess # 0 THEN sess ELSE rqf[c].session]]
  /\ remoteIP' = IF c = 1 /\ hr # NoRequest THEN parseIP(hr) ELSE remoteIP
  /\ sessReqs' = IF hr # NoRequest /\ sess # 0 THEN sessReqs \cup {c} ELSE sessReqs
  /\ srv' = [srv EXCEPT ![c] = Accepting]
  /\ ctxDone' = [ctxDone EXCEPT ![c] = FALSE]
  /\ ctxCause' = [ctxCause EXCEPT ![c] = NoErr]
  /\ subs' = subs \ {c}
  /\ bcastCh' = [bcastCh EXCEPT ![c] = <<>>]
  /\ outbound' = [outbound EXCEPT ![c] = <<>>]
  /\ outClosed' = [outClosed EXCEPT ![c] = FALSE]
  /\ eventCall' = [eventCall EXCEPT ![c] = <<>>]
  /\ callClosed' = [callClosed EXCEPT ![c] = FALSE]
  /\ proc' = [proc EXCEPT ![c] = "new"]
  /\ sel' = [sel EXCEPT ![c] = "none"]
  /\ cur' = [cur EXCEPT ![c] = NilMsg]
  /\ outcome' = [outcome EXCEPT ![c] = "none"]
  /\ unsub' = [unsub EXCEPT ![c] = 0]
  /\ ec' = [ec EXCEPT ![c] = "new"]
  /\ ecCall' = [ecCall EXCEPT ![c] = NilMsg]
  /\ lastSeq' = [lastSeq EXCEPT ![c] = 0]
  /\ rd' = [rd EXCEPT ![c] = "new"]
  /\ rdMsg' = [rdMsg EXCEPT ![c] = NilMsg]
  /\ rdDropped' = [rdDropped EXCEPT ![c] = 0]
  /\ wr' = [wr EXCEPT ![c] = "new"]
  /\ wire' = [wire EXCEPT ![c] = <<>>]
  /\ nRead' = [nRead EXCEPT ![c] = 0]
  /\ UNCHANGED <<rqPrev, pureVars, uiState, regVars, sendVars, startHr, startRes, chCap, elems,
                 value, jawsDone, nMsgs, nFaults>>

\* Connection 2 is running; the Request of connection 1 is still to be taken
\* from requestPool.
InitPool ==
  /\ ConnServe([c \in Conns |-> ChSize], [c \in Conns |-> <<>>],
               [c \in Conns |-> EmptyRegistry], [c \in Conns |-> <<>>], {2})
  /\ CodecIdle /\ PureIdle
  /\ UIIdle
  /\ rqf = [c \in Conns |-> IF c = 1 THEN ZeroRequest ELSE LiveRequest(c)]
  /\ pool = {1}
  /\ sessReqs = {}
  /\ rqPrev = NothingRecycled

NextPool ==
  \/ \E key \in JawsKeys, hr \in HttpRequests, sess \in Sessions : NewRequest(1, key, hr, sess)
  \/ \E fn \in ConnectFns : SetConnectFn(1, fn)
  \/ \E jid \in RegIds, fn \in Handlers : RegisterForPage(1, jid, fn)
  \/ \E err \in Errors : Accept(1, err)
  \/ \E err \in Errors : OnConnect(1, err)
  \/ \E written \in BOOLEAN : ServeAlert(1, written)
  \/ ServeCancel(1)
  \/ Recycle(1)
  \/ ServeClose(1)
  \/ ReaderReadError(1)
  \/ ProcessRecvIncoming(1)
  \/ ProcessDrainDone(1)
  \/ EventCallerExit(1)
  \/ WriterExit(1)

SpecPool == InitPool /\ [][NextPool]_vars

\* ------------------------------------------------------------------------
\* Every kind of message Request.Send can hand to the loop
\* ------------------------------------------------------------------------
\* Send takes any *Message: besides the messages of DirectMsgs, a nil pointer
\* and a hook message for element "2", which is registered with a nil handler.
AnyDirectMsgs == DirectMsgs(1) \cup {NilMsg, Msg("2", "hook", 0)}

NextCause ==
  \/ Shutdown
  \/ CancelCtx(1)
  \/ \E p \in {0, 1}, m \in BroadcastMsgs : Broadcast(p, m)
  \/ ProcessSelectDone(1)
  \/ \E m \in AnyDirectMsgs : ProcessRecvSend(1, m)
  \/ ProcessRecvBroadcast(1)
  \/ ProcessRecvIncoming(1)
  \/ ProcessHandle(1)
  \/ \E err \in Errors : ProcessHookReturn(1, err)
  \/ ProcessDrainCall(1)
  \/ \E m \in AnyDirectMsgs : ProcessDrainSend(1, m)
  \/ ProcessDrainIncoming(1)
  \/ ProcessDrainDone(1)
  \/ EventCallerRecv(1)
  \/ \E err \in Errors : EventCallerReturn(1, err)
  \/ EventCallerExit(1)
  \/ \E m \in IncomingMsgs(1) : ReaderRead(1, m)
  \/ ReaderReadError(1)
  \/ ReaderAbort(1)
  \/ WriterWrite(1)
  \/ WriterWriteError(1)
  \/ WriterExit(1)

SpecCause == Init /\ [][NextCause]_vars

\* ------------------------------------------------------------------------
\* The teardown of process with a handler that calls Request.Send
\* ------------------------------------------------------------------------
\* The handler eventCaller is running calls rq.Send.
HandlerSend(c, m) ==
  /\ ec[c] = "call"
  /\ SendCall(c, m)

\* The handler returns once the Send it called has returned.
HandlerReturn(c, err) ==
  /\ snd[c] = "idle"
  /\ EventCallerReturn(c, err)

\* Variant of DrainBlockedSend: the drain loop has no case for rq.sendCh.
DrainBlockedSend_NoCase(c) ==
  /\ proc[c] = "drain"
  /\ FALSE
  /\ UNCHANGED vars

\* The drain loop takes and drops the message of a handler blocked in Send.
\* The sends of a handler are not counted against MaxMsgs: whatever else the
\* connection was given, the drain loop can take them.
DrainBlockedSend(c) ==
  /\ proc[c] = "drain"
  /\ snd[c] = "waiting"
  /\ SendTaken(c)
  /\ UNCHANGED <<uiState, regVars, startVars, srvVars, sideVars, chCap, elems, value, jawsDone, ctxDone, hubVars, outbound, outClosed,
                 eventCall, callClosed, procVars, callerVars, readerVars, writerVars,
                 envVars>>

\* Connection 1 with up to two client events read and not finished: the
\* handler of the first is running, the second waits in eventCallCh.
InitDown ==
  /\ \E pend \in SeqsUpTo({[Msg("1", "input", 0) EXCEPT !.seq = 1]}, 1)
                 \cup {<<[Msg("1", "input", 0) EXCEPT !.seq = 1],
                         [Msg("1", "input", 0) EXCEPT !.seq = 2]>>} :
       ConnPending([c \in Conns |-> ChSize], [c \in Conns |-> <<>>], InitElems,
                   [c \in Conns |-> IF c = 1 THEN pend ELSE <<>>])
  /\ CodecIdle /\ OtherIdle
  /\ UIIdle

NextDown ==
  \/ CancelCtx(1)
  \/ \E m \in SendMsgs : ProcessRecvSend(1, m)
  \/ ProcessSelectDone(1)
  \/ ProcessRecvIncoming(1)
  \/ ProcessHandle(1)
  \/ ProcessDrainCall(1)
  \/ \E m \in SendMsgs : ProcessDrainSend(1, m)
  \/ DrainBlockedSend(1)
  \/ ProcessDrainIncoming(1)
  \/ ProcessDrainDone(1)
  \/ EventCallerRecv(1)
  \/ HandlerSend(1, Msg("1", "value", 0))
  \/ SendDone(1)
  \/ \E err \in Errors : HandlerReturn(1, err)
  \/ EventCallerExit(1)
  \/ ReaderRead(1, Msg("1", "input", 0))
  \/ ReaderReadError(1)
  \/ ReaderAbort(1)

\* The loop, eventCaller, the handler and wsReader are scheduled whenever
\* they can take a step, and a select takes a case that stays ready.  A handler
\* calls Send only finitely often: one that is again and again not inside Send
\* returns.  Nothing obliges the application or the client to send, nor the
\* transport to break; wsWriter takes nothing, so outboundMsgCh fills up.
FairDown ==
  /\ WF_vars(ProcessSelectDone(1))
  /\ WF_vars(ProcessHandle(1))
  /\ WF_vars(DrainBlockedSend(1))
  /\ WF_vars(ProcessDrainIncoming(1))
  /\ WF_vars(ProcessDrainDone(1))
  /\ WF_vars(EventCallerRecv(1))
  /\ WF_vars(SendDone(1))
  /\ SF_vars(\E err \in Errors : HandlerReturn(1, err))
  /\ WF_vars(EventCallerExit(1))
  /\ WF_vars(ReaderAbort(1))

SpecDown == InitDown /\ [][NextDown]_vars /\ FairDown

\* ------------------------------------------------------------------------
\* One connection to its end: the four tasks under fair scheduling
\* ------------------------------------------------------------------------
\* ws.Read returns an error because the context is cancelled or the
\* websocket is closed.
ReaderReadClosed(c) == (ctxDone[c] \/ wr[c] = "done") /\ ReaderReadError(c)

\* Connection 1 is in mid-run: one update is in outboundMsgCh, forwarded
\* by the loop and not yet taken by wsWriter.
InitLive ==
  /\ ConnStartWith([c \in Conns |-> ChSize],
                   [c \in Conns |-> IF c = 1 THEN <<Msg("1", "value", 0)>> ELSE <<>>])
  /\ CodecIdle /\ OtherIdle
  /\ UIIdle

NextLive ==
  \/ Shutdown
  \/ CancelCtx(1)
  \/ \E m \in DirectMsgs(1) : ProcessRecvSend(1, m)
  \/ ProcessSelectDone(1)
  \/ ProcessRecvIncoming(1)
  \/ ProcessHandle(1)
  \/ \E err \in Errors : ProcessHookReturn(1, err)
  \/ ProcessDrainCall(1)
  \/ \E m \in DirectMsgs(1) : ProcessDrainSend(1, m)
  \/ ProcessDrainIncoming(1)
  \/ ProcessDrainDone(1)
  \/ EventCallerRecv(1)
  \/ \E err \in Errors : EventCallerReturn(1, err)
  \/ EventCallerExit(1)
  \/ \E m \in IncomingMsgs(1) : ReaderRead(1, m)
  \/ ReaderReadError(1)
  \/ ReaderAbort(1)
  \/ WriterWrite(1)
  \/ WriterWriteError(1)
  \/ WriterExit(1)

\* Every goroutine that can take a step is scheduled, every handler call
\* returns, every ws.Write returns, and ws.Read fails once the context is
\* cancelled or the websocket is closed.  Nothing obliges the application
\* or the client to send, nor the transport to break.
FairLive ==
  /\ WF_vars(ProcessSelectDone(1))
  /\ WF_vars(ProcessRecvIncoming(1))
  /\ WF_vars(ProcessHandle(1))
  /\ WF_vars(\E err \in Errors : ProcessHookReturn(1, err))
  /\ WF_vars(ProcessDrainDone(1))
  /\ WF_vars(EventCallerRecv(1))
  /\ WF_vars(\E err \in Errors : EventCallerReturn(1, err))
  /\ WF_vars(EventCallerExit(1))
  /\ WF_vars(ReaderReadClosed(1))
  /\ WF_vars(ReaderAbort(1))
  /\ WF_vars(WriterWrite(1))
  /\ WF_vars(WriterExit(1))

SpecLive == InitLive /\ [][NextLive]_vars /\ FairLive

\* ------------------------------------------------------------------------
\* The element registry (ui.go): elements, the tag index, rendering
\* ------------------------------------------------------------------------
\* A tag is a sequence of characters; an element's own jid is a tag too.
Tags == {<<"x">>, <<"y">>}

JidTag(jid) == JidAppend(jid)

TagLists == SeqsUpTo(Tags, MaxTags)

UiKinds == {"input", "span"}

UiValues == {<<"f">>, <<"q">>}

\* rq.tagMap[tag]: nil for a tag that was never indexed
TagMapGet(tm, tag) == IF tag \in DOMAIN tm THEN tm[tag] ELSE <<>>

\* rq.tagMap[tag] = append(rq.tagMap[tag], elem)
TagMapPut(tm, tag, jid) ==
  [t \in DOMAIN tm \cup {tag} |-> IF t = tag THEN Append(TagMapGet(tm, tag), jid) ELSE tm[t]]

RECURSIVE IndexTags(_, _, _)
IndexTags(tm, tags, jid) ==
  IF tags = <<>> THEN tm ELSE IndexTags(TagMapPut(tm, Head(tags), jid), Tail(tags), jid)

\* Variant of newElementLocked: the element is not indexed under its own jid.
newElementLocked_TagsOnly(els, tm, tags, kind) ==
  IF Len(tags) > 0
  THEN LET jid == Len(els) + 1 IN
       [elems  |-> Append(els, [jid |-> jid, kind |-> kind, tags |-> tags]),
        tagMap |-> IndexTags(tm, tags, jid),
        elem   |-> jid]
  ELSE [elems |-> els, tagMap |-> tm, elem |-> 0]

\* Variant of newElementLocked: an element is made for an empty tag list too.
newElementLocked_Untagged(els, tm, tags, kind) ==
  LET jid == Len(els) + 1 IN
    [elems  |-> Append(els, [jid |-> jid, kind |-> kind, tags |-> tags]),
     tagMap |-> IndexTags(TagMapPut(tm, JidTag(jid), jid), tags, jid),
     elem   |-> jid]

\* Request.newElementLocked: [elems, tagMap, elem]; elem 0 is nil.
newElementLocked(els, tm, tags, kind) ==
  IF Len(tags) > 0
  THEN LET jid == Len(els) + 1 IN
       [elems  |-> Append(els, [jid |-> jid, kind |-> kind, tags |-> tags]),
        tagMap |-> IndexTags(TagMapPut(tm, JidTag(jid), jid), tags, jid),
        elem   |-> jid]
  ELSE [elems |-> els, tagMap |-> tm, elem |-> 0]

\* Variant of RenderTodo: only the first tag is looked up.
RenderTodo_FirstTag(tm, tags) ==
  IF tags = <<>> THEN <<>> ELSE TagMapGet(tm, Head(tags))

\* Request.Render: the elements to render, in order.
RECURSIVE RenderTodo(_, _)
RenderTodo(tm, tags) ==
  IF tags = <<>> THEN <<>> ELSE TagMapGet(tm, Head(tags)) \o RenderTodo(tm, Tail(tags))

\* UiInputText.JawsUpdate: SetValue sends the element's value as a Value frame.
ValueFrame(jid, val) == Format([Data |-> val, Jid |-> jid, What |-> "Value"])

RECURSIVE UpdateFrames(_, _, _)
UpdateFrames(els, todo, val) ==
  IF todo = <<>> THEN <<>>
  ELSE (IF els[Head(todo)].kind = "input" THEN <<ValueFrame(Head(todo), val)>> ELSE <<>>)
       \o UpdateFrames(els, Tail(todo), val)

InitUI == InitConn /\ CodecIdle /\ OtherIdle /\ UIIdle

\* Request.UI: a new element, indexed under its tags.
UI(tags, kind) ==
  /\ Len(uElems) < MaxElems
  /\ LET r == newElementLocked(uElems, tagMap, tags, kind) IN
       /\ uElems' = r.elems
       /\ tagMap' = r.tagMap
       /\ uElem' = r.elem
  /\ uDirty' = <<>>
  /\ uRendered' = <<>>
  /\ uFrames' = <<>>
  /\ UNCHANGED <<uValue, sideVars, regVars, sendVars, startVars, srvVars, connVars>>

\* The application stores a new value (the setter of the test).
SetValue(v) ==
  /\ v # uValue
  /\ uValue' = v
  /\ uDirty' = <<>>
  /\ uRendered' = <<>>
  /\ uFrames' = <<>>
  /\ UNCHANGED <<uElems, tagMap, uElem, sideVars, regVars, sendVars, startVars, srvVars, connVars>>

\* Tags are marked dirty: every element found under them is rendered again
\* and an input among them sends its value.
Dirty(tags) ==
  /\ tags # <<>>
  /\ uDirty' = tags
  /\ uRendered' = RenderTodo(tagMap, tags)
  /\ uFrames' = UpdateFrames(uElems, RenderTodo(tagMap, tags), uValue)
  /\ UNCHANGED <<uElems, tagMap, uValue, uElem, sideVars, regVars, sendVars, startVars, srvVars, connVars>>

DirtyKeys == Tags \cup {JidTag(j) : j \in 1..MaxElems}

NextUI ==
  \/ \E tags \in TagLists, kind \in UiKinds : UI(tags, kind)
  \/ \E v \in UiValues : SetValue(v)
  \/ \E tags \in SeqsUpTo(DirtyKeys, MaxTags) : Dirty(tags)

SpecUI == InitUI /\ [][NextUI]_vars

\* ------------------------------------------------------------------------
\* The codec scenario: a message is encoded and the frame decoded again, or
\* a frame as a client may send it is decoded.
\* ------------------------------------------------------------------------
DataAlphabet == {"z", TAB, NL, QUOTE, BSL, BAD}
FrameAlphabet == {"z", TAB, NL, QUOTE, BSL, BAD}

JidValues == {-1, 0, 1, MaxJid}

ValidMsgs ==
  {[Data |-> d, Jid |-> j, What |-> w] :
     d \in SeqsUpTo(DataAlphabet, MaxData), j \in JidValues, w \in Whats}

FramePrefixes ==
  {<<>>,
   WhatNames.Input,
   WhatNames.Input \o <<TAB>>,
   WhatNames.Input \o <<TAB, TAB>>,
   WhatNames.Alert \o <<TAB>> \o JidAppend(1) \o <<TAB>>,
   <<"I","n">>,
   <<"I","n","p",BAD,"u","t">>}

RawFrames == {p \o t : p \in FramePrefixes, t \in SeqsUpTo(FrameAlphabet, MaxTail)}

InitCodec ==
  /\ InitConn
  /\ UIIdle
  /\ OtherIdle
  /\ cOut = NotOk
  /\ \/ cPhase = "msg" /\ cMsg \in ValidMsgs /\ cFrame = <<>>
     \/ cPhase = "raw" /\ cMsg = ZeroWsMsg /\ cFrame \in RawFrames

\* m.Append(nil)
CodecAppend ==
  /\ cPhase = "msg"
  /\ cFrame' = wsAppend(<<>>, cMsg)
  /\ cPhase' = "encoded"
  /\ UNCHANGED <<cMsg, cOut, fnVars, poolVars, connVars, uiVars>>

\* wsParse of the encoded message
CodecParseEncoded ==
  /\ cPhase = "encoded"
  /\ cOut' = wsParse(cFrame)
  /\ cPhase' = "decoded"
  /\ UNCHANGED <<cMsg, cFrame, fnVars, poolVars, connVars, uiVars>>

\* wsParse of a client frame
CodecParseRaw ==
  /\ cPhase = "raw"
  /\ cOut' = wsParse(cFrame)
  /\ cPhase' = "parsed"
  /\ UNCHANGED <<cMsg, cFrame, fnVars, poolVars, connVars, uiVars>>

NextCodec == CodecAppend \/ CodecParseEncoded \/ CodecParseRaw

SpecCodec == InitCodec /\ [][NextCodec]_vars

\* ------------------------------------------------------------------------
\* Claims about the codec
\* ------------------------------------------------------------------------
\* C7: for every valid message m, including one with a negative (absent)
\* jid, wsParse(m.Append(nil)) is ok and returns m's command, jid and payload.
C7_RoundTrip ==
  cPhase = "decoded" =>
    /\ cOut.ok
    /\ cOut.msg.What = cMsg.What
    /\ cOut.msg.Jid = cMsg.Jid
    /\ cOut.msg.Data = cMsg.Data

\* The round trip for the messages that carry a jid field (jid >= 0).
C7_RoundTripNonNegative ==
  (cPhase = "decoded" /\ cMsg.Jid >= 0) =>
    /\ cOut.ok
    /\ cOut.msg = cMsg

CountOf(s, c) == Cardinality({i \in 1..Len(s) : s[i] = c})

CommandToken(s) == IF IndexByte(s, TAB) < 0 THEN s ELSE Slice(s, 0, IndexByte(s, TAB))

\* The frame lacks the trailing newline, has fewer than two tabs, or its
\* command token is not a command.
Malformed(s) ==
  \/ Len(s) = 0
  \/ s[Len(s)] # NL
  \/ CountOf(s, TAB) < 2
  \/ \A w \in Whats : WhatNames[w] # CommandToken(s)

\* C8 as claimed: wsParse is not-ok and does not panic on every frame, as
\* received, that lacks the trailing newline, has fewer than two tabs or has
\* an unknown command token.
C8_RejectsMalformedAsReceived ==
  cPhase = "parsed" =>
    /\ ~cOut.panic
    /\ Malformed(cFrame) => ~cOut.ok

\* C8 amended: wsParse never panics, and it is not-ok for every frame that,
\* once its invalid UTF-8 bytes are removed, lacks the trailing newline, has
\* fewer than two tabs or has an unknown command token.
C8_RejectsMalformed ==
  cPhase = "parsed" =>
    /\ ~cOut.panic
    /\ Malformed(ToValidUTF8(cFrame)) => ~cOut.ok

\* A frame of separators only has been parsed and rejected.
C8_Witness ==
  cPhase = "parsed" /\ cFrame = <<TAB, TAB, NL>> /\ ~cOut.ok /\ ~cOut.panic

\* ------------------------------------------------------------------------
\* Claims about the process loop and the handler dispatcher
\* ------------------------------------------------------------------------
FromConn(c, q) == \E i \in 1..Len(q) : q[i].from = c

\* The step in which process finishes the loop body on the message it holds.
HandleStep(c) == proc[c] = "handle" /\ proc'[c] # "handle"

Registered(c, m) == m.Elem \in DOMAIN elems[c] \/ m.Elem \in metaIds

HasHandler(c, m) == m.Elem \in DOMAIN elems[c] /\ elems[c][m.Elem] # "nil"

\* The message came from the transport or is a trigger.
EventMsg(c) == sel[c] = "incoming" \/ cur[c].What = "trigger"

\* The message is one the loop writes to outboundMsgCh.
Forwardable(c) ==
  /\ cur[c].from # c
  /\ Registered(c, cur[c])
  /\ ~EventMsg(c)
  /\ cur[c].What # "hook"

OthersUntouched(c) ==
  \A d \in Conns \ {c} :
    /\ proc'[d] = proc[d]
    /\ outbound'[d] = outbound[d]
    /\ eventCall'[d] = eventCall[d]
    /\ bcastCh'[d] = bcastCh[d]
    /\ (d \in subs') = (d \in subs)

\* C1: a message whose origin is the connection that receives it is never on
\* that connection's outbound channel, never in its handler-call channel and
\* never handed to a handler, whatever its kind and whichever channel it
\* came from.
C1_SelfOriginDiscarded ==
  \A c \in Conns :
    /\ ~FromConn(c, outbound[c])
    /\ ~FromConn(c, eventCall[c])
    /\ ecCall[c].from # c
    /\ proc[c] = "hook" => cur[c].from # c
    /\ outcome[c] = "self" =>
         proc[c] = "run" /\ c \in subs /\ ~callClosed[c]

\* Connection 1 has discarded a message of its own and is back in its select.
C1_Witness ==
  outcome[1] = "self" /\ proc[1] = "run" /\ outbound[1] = <<>> /\ eventCall[1] = <<>>

\* C2: the pass of the loop over a message whose target is neither registered
\* nor a reserved id puts nothing on the outbound channel, queues no call,
\* starts no handler, and leaves the loop running.
C2_UnregisteredDiscarded ==
  [][\A c \in Conns :
       (HandleStep(c) /\ ~Registered(c, cur[c])) =>
         /\ proc'[c] = "run"
         /\ outbound'[c] = outbound[c]
         /\ eventCall'[c] = eventCall[c]
         /\ ec'[c] = ec[c]
         /\ ecCall'[c] = ecCall[c]
         /\ value'[c] = value[c]
         /\ (c \in subs') = (c \in subs)
         /\ callClosed'[c] = callClosed[c]
    ]_vars

\* Connection 1 has discarded a message for an unregistered id and runs on.
C2_Witness ==
  outcome[1] = "unregistered" /\ proc[1] = "run" /\ 1 \in subs

\* C3 as claimed: a message from the transport, or a trigger, is not written
\* to the outbound channel and is queued on the handler-call channel (read for
\* the messages that are not the connection's own and whose target is
\* registered).
C3_EventQueued ==
  [][\A c \in Conns :
       (HandleStep(c) /\ EventMsg(c) /\ cur[c].from # c /\ Registered(c, cur[c])) =>
         /\ outbound'[c] = outbound[c]
         /\ eventCall'[c] = Append(eventCall[c], cur[c])
    ]_vars

\* C3 amended: a message from the transport, or a trigger, is never written
\* to the outbound channel; it is queued on the handler-call channel exactly
\* when it is not the connection's own, its target has a handler and the
\* channel has room.  Without a handler it is dropped; with a handler and a
\* full channel the loop returns.
C3_EventNeverForwarded ==
  [][\A c \in Conns :
       (HandleStep(c) /\ EventMsg(c)) =>
         /\ outbound'[c] = outbound[c]
         /\ IF cur[c].from # c /\ HasHandler(c, cur[c])
            THEN IF Len(eventCall[c]) < Cap(c)
                 THEN eventCall'[c] = Append(eventCall[c], cur[c]) /\ proc'[c] = "run"
                 ELSE eventCall'[c] = eventCall[c] /\ proc'[c] = "drain"
            ELSE eventCall'[c] = eventCall[c] /\ proc'[c] = "run"
    ]_vars

\* Connection 1 has queued a handler call and written nothing.
C3_Witness ==
  outcome[1] = "queued" /\ Len(eventCall[1]) = 1 /\ outbound[1] = <<>>

\* C4 as claimed: a forwardable message that finds the outbound channel full
\* makes the loop return, without waiting, and touches no other connection.
C4_OverflowTerminates ==
  [][\A c \in Conns :
       (HandleStep(c) /\ Forwardable(c) /\ Len(outbound[c]) >= Cap(c)) =>
         /\ proc'[c] = "drain"
         /\ outbound'[c] = outbound[c]
         /\ OthersUntouched(c)
    ]_vars

\* The loop body can always finish on the message it holds.
NeverBlocks ==
  \A c \in Conns :
    /\ proc[c] = "handle" => ENABLED ProcessHandle(c)
    /\ proc[c] = "hook" => ENABLED ProcessHookReturn(c, ErrText)

\* The pass over a forwardable message that finds the outbound channel full.
OverflowStep ==
  \A c \in Conns :
    (HandleStep(c) /\ Forwardable(c) /\ Len(outbound[c]) >= Cap(c)) =>
      /\ outbound'[c] = outbound[c]
      /\ IF Done(c)
         THEN proc'[c] = "run" /\ (c \in subs') = (c \in subs)
         ELSE proc'[c] = "drain" /\ c \notin subs'
      /\ OthersUntouched(c)

\* C4 amended: the loop never waits on the outbound send.  A forwardable
\* message that finds the outbound channel full makes the loop return and
\* unsubscribe, unless shutdown or cancellation is already signalled: then
\* the message is dropped and the loop goes back to its select.  Either way
\* no other connection is touched.
C4_OverflowTerminatesUnlessDone == []NeverBlocks /\ [][OverflowStep]_vars

\* Connection 1 has returned on a full outbound channel and is torn down,
\* while connection 2 is subscribed, running, and has a broadcast waiting.
C4_Witness ==
  /\ outcome[1] = "outboundFull" /\ proc[1] = "done"
  /\ 2 \in subs /\ proc[2] = "run" /\ bcastCh[2] # <<>>

\* C5: the handlers of client events run one at a time in arrival order: a
\* handler starts only when no handler is running, the event it is for arrived
\* after every event whose handler started before, and no event that arrived
\* earlier is still waiting.
C5_HandlersInArrivalOrder ==
  [][\A c \in Conns :
       (ec'[c] = "call" /\ ec[c] # "call" /\ ecCall'[c].seq > 0) =>
         /\ ec[c] = "wait"
         /\ ecCall'[c].seq > lastSeq[c]
         /\ \A i \in 1..Len(eventCall'[c]) :
              eventCall'[c][i].seq > 0 => eventCall'[c][i].seq > ecCall'[c].seq
    ]_vars

\* The handler of the first client event runs while the second event waits
\* in eventCallCh behind it.
C5_Witness ==
  /\ ec[1] = "call" /\ ecCall[1].seq = 1
  /\ Len(eventCall[1]) = 1 /\ eventCall[1][1].seq = 2

\* The Alert frame of the error text ErrText.
AlertFrame ==
  <<"A","l","e","r","t", TAB, TAB, QUOTE, "d","a","n","g","e","r", BSL, "n",
    "m", "&", "l", "t", ";", QUOTE, NL>>

\* The handler of a client Input event returns the error ErrText.
InputErrorStep(c) == ecCall[c].What = "input" /\ EventCallerReturn(c, ErrText)

\* C6 as claimed: when the handler of a client Input event returns an error,
\* exactly one alert is added to the outbound channel, its frame is
\* Alert, empty jid, quoted "danger\n" and the escaped error text, the value
\* is unchanged and the loop is not disturbed.
C6_AlertAlwaysSent ==
  [][\A c \in Conns :
       InputErrorStep(c) =>
         /\ outbound'[c] = Append(outbound[c], makeAlertDangerMessage(ErrText))
         /\ Format(FillAlert(ErrText)) = AlertFrame
         /\ value'[c] = value[c]
         /\ proc'[c] = proc[c]
    ]_vars

\* C6 amended: when the handler of a client Input event returns an error and
\* the outbound channel has room, exactly one alert is added to it, whose
\* frame is Alert, empty jid, quoted "danger\n" and the escaped error text;
\* when the outbound channel is full the alert is dropped.  Either way the
\* value is unchanged and the loop is not disturbed.
C6_AlertSentIfRoom ==
  [][\A c \in Conns :
       InputErrorStep(c) =>
         /\ IF Len(outbound[c]) < Cap(c)
            THEN /\ Len(outbound'[c]) = Len(outbound[c]) + 1
                 /\ SubSeq(outbound'[c], 1, Len(outbound[c])) = outbound[c]
                 /\ LET a == outbound'[c][Len(outbound'[c])] IN
                      /\ a.Elem = " alert" /\ a.What = "danger"
                      /\ <<"d","a","n","g","e","r",NL>> \o a.Data = FillAlert(ErrText).Data
                      /\ Format(FillAlert(ErrText)) = AlertFrame
            ELSE outbound'[c] = outbound[c]
         /\ value'[c] = value[c]
         /\ proc'[c] = proc[c]
         /\ (c \in subs') = (c \in subs)
    ]_vars

\* The alert of a failed Input handler is the only message on connection 1's
\* outbound channel; the value is the initial one and the loop runs.
C6_Witness ==
  /\ outbound[1] = <<makeAlertDangerMessage(ErrText)>>
  /\ lastSeq[1] = 1 /\ ec[1] = "wait"
  /\ value[1] = InitValue /\ proc[1] = "run"

\* C10: on every way out of the loop the subscription is removed exactly
\* once, and the outbound channel is closed only after that.
C10_UnsubscribedOnceBeforeClose ==
  \A c \in Conns :
    /\ unsub[c] <= 1
    /\ (proc[c] \in {"drain", "done"}) = (unsub[c] = 1)
    /\ unsub[c] = 1 => c \notin subs
    /\ outClosed[c] => unsub[c] = 1 /\ proc[c] = "done"

\* Connection 1 went out on a full outbound channel and connection 2 on
\* shutdown; both have unsubscribed once and closed their outbound channel.
C10_Witness ==
  /\ outcome[1] = "outboundFull" /\ outClosed[1] /\ unsub[1] = 1
  /\ outcome[2] = "jawsDone" /\ outClosed[2] /\ unsub[2] = 1
  /\ subs = {}

\* ------------------------------------------------------------------------
\* Claims about the element registry
\* ------------------------------------------------------------------------
Range(q) == {q[i] : i \in 1..Len(q)}

\* The element was registered under the tag: it is one of its tags, or its jid.
RegisteredUnder(e, tag) == tag \in Range(e.tags) \/ tag = JidPrefix \o Digits(e.jid)

UnderDirty(e) == \E k \in 1..Len(uDirty) : RegisteredUnder(e, uDirty[k])

\* Value, the jid, the quoted value.
QuotedValueFrame(jid, val) ==
  <<"V","a","l","u","e", TAB>> \o JidPrefix \o Digits(jid) \o <<TAB, QUOTE>> \o val
    \o <<QUOTE, NL>>

\* C9: marking tags dirty renders every element registered under one of
\* them at least once and no element registered only under other tags; an
\* input element under a dirty tag sends a Value frame with its jid and the
\* current value, quoted, and the other elements send nothing.
C9_DirtyRendersTaggedElements ==
  uDirty # <<>> =>
    /\ \A i \in 1..Len(uElems) :
         LET e == uElems[i] IN
           /\ UnderDirty(e) => e.jid \in Range(uRendered)
           /\ ~UnderDirty(e) => e.jid \notin Range(uRendered)
           /\ (UnderDirty(e) /\ e.kind = "input") =>
                QuotedValueFrame(e.jid, uValue) \in Range(uFrames)
    /\ \A k \in 1..Len(uFrames) :
         \E i \in 1..Len(uElems) :
           /\ UnderDirty(uElems[i]) /\ uElems[i].kind = "input"
           /\ uFrames[k] = QuotedValueFrame(uElems[i].jid, uValue)

\* Tag x is marked dirty after the value became "q": input 1, under x, is
\* rendered and sends Value Jid.1 "q"; input 2, under y only, is left alone.
C9_Witness ==
  /\ uDirty = << <<"x">> >>
  /\ Len(uElems) = 2
  /\ uElems[1].kind = "input" /\ uElems[1].tags = << <<"x">> >>
  /\ uElems[2].kind = "input" /\ uElems[2].tags = << <<"y">> >>
  /\ uValue = <<"q">>
  /\ uRendered = <<1>>
  /\ uFrames = << <<"V","a","l","u","e", TAB, "J","i","d",".","1", TAB, QUOTE, "q", QUOTE, NL>> >>

\* ------------------------------------------------------------------------
\* Claims about the end of a connection
\* ------------------------------------------------------------------------
\* The connection is on a fatal path: a done signal has fired, the loop has
\* returned, or a pump has exited.
Fatal(c) ==
  \/ jawsDone
  \/ ctxDone[c]
  \/ proc[c] \in {"drain", "done"}
  \/ rd[c] = "done"
  \/ wr[c] = "done"

\* wsWriter has returned, and with it ws.Close has run.
TransportClosed(c) == wr[c] = "done"

AllExited(c) == rd[c] = "done" /\ wr[c] = "done" /\ proc[c] = "done" /\ ec[c] = "done"

\* C11: on every fatal path of connection 1 the transport is eventually
\* closed, the subscription removed and reader, writer, loop and dispatcher
\* have all exited.
C11_FatalPathsCleanUp ==
  Fatal(1) ~> (TransportClosed(1) /\ 1 \notin subs /\ AllExited(1))

\* On every fatal path the transport is eventually closed, the subscription
\* removed, and writer, loop and dispatcher have exited.
C11_AllButReader ==
  Fatal(1) ~> (TransportClosed(1) /\ 1 \notin subs
               /\ wr[1] = "done" /\ proc[1] = "done" /\ ec[1] = "done")

\* wsReader holds a frame for a loop that has returned, and no done signal
\* has fired: its select has no ready case.
ReaderStranded(c) == rd[c] = "handoff" /\ proc[c] = "done" /\ ~Done(c)



\* Every entry of the registry of connection c except the one for jid is as it was.
OtherEntriesKept(c, jid) ==
  /\ DOMAIN elems'[c] \ {jid} = DOMAIN elems[c] \ {jid}
  /\ \A k \in DOMAIN elems[c] \ {jid} : elems'[c][k] = elems[c][k]

\* C12: RegisterEventFn(jid, nil) on a registered jid leaves the registry as it
\* was, so GetEventFn still returns the handler registered before; with a non-nil
\* handler it replaces the entry; on a jid not yet registered it creates the entry
\* with the given handler, nil included; and no other jid's entry changes.
C12_RegisterFrame ==
  [][\A jid \in RegIds \ {""}, fn \in Handlers :
       CallRegisterEventFn(1, jid, fn) =>
         /\ regJid' = jid
         /\ (jid \in DOMAIN elems[1] /\ fn = "nil") =>
              /\ elems'[1] = elems[1]
              /\ GetEventFn(1, jid)' = GetEventFn(1, jid)
         /\ (jid \in DOMAIN elems[1] /\ fn # "nil") =>
              GetEventFn(1, jid)' = [fn |-> fn, ok |-> TRUE]
         /\ jid \notin DOMAIN elems[1] =>
              /\ jid \in DOMAIN elems'[1]
              /\ elems'[1][jid] = fn
         /\ OtherEntriesKept(1, jid)]_vars

\* Register("1") has just returned on a registry that held a handler for "1" and
\* another entry: both are still there.
C12_Witness ==
  /\ regOp = [op |-> "register", conn |-> 1, jid |-> "1", fn |-> "nil"]
  /\ "1" \in DOMAIN elems[1]
  /\ elems[1]["1"] = "fn2"
  /\ "2" \in DOMAIN elems[1]

\* The message the loop holds is addressed to a reserved id and came from
\* Request.Send or from the broadcast channel.
MetaStep(c) ==
  /\ HandleStep(c)
  /\ cur[c].Elem \in metaIds
  /\ sel[c] \in {"send", "bcast"}

\* GetEventFn reports every reserved id as registered, whatever the registry holds.
MetaRegistered ==
  \A c \in Conns : \A id \in metaIds : GetEventFn(c, id).ok

IndexedUnder(jid, tag) == jid \in Range(TagMapGet(tagMap, tag))

\* The i-th stored element has jid i and is found under its jid and its tags.
ElementsNumberedAndIndexed ==
  \A i \in 1..Len(uElems) :
    /\ uElems[i].jid = i
    /\ IndexedUnder(i, JidTag(i))
    /\ \A k \in 1..Len(uElems[i].tags) : IndexedUnder(i, uElems[i].tags[k])

\* C14: after any sequence of newElement calls the i-th stored element has jid
\* i, each call with tags hands out the jid after the last one and keeps the
\* elements stored before, and every stored element is in the tag index under
\* its own jid and under each tag it was created with.
C14_JidsDenseAndIndexed ==
  /\ []ElementsNumberedAndIndexed
  /\ [][\A tags \in TagLists \ {<<>>}, kind \in UiKinds :
         UI(tags, kind) =>
           /\ uElem' = Len(uElems) + 1
           /\ Len(uElems') = Len(uElems) + 1
           /\ uElems'[uElem'].jid = uElem'
           /\ uElems'[uElem'].tags = tags
           /\ SubSeq(uElems', 1, Len(uElems)) = uElems]_vars

\* Two elements were created, the second under x and y: it has jid 2 and is
\* found under Jid.2, x and y.
C14_Witness ==
  /\ Len(uElems) = 2
  /\ uElem = 2
  /\ uElems[2].tags = << <<"x">>, <<"y">> >>
  /\ IndexedUnder(2, JidTag(2))
  /\ IndexedUnder(2, <<"x">>)
  /\ IndexedUnder(2, <<"y">>)

\* Everything the tag index and the last rendering hold is a stored element,
\* and every stored element has a tag.
OnlyTaggedAddressable ==
  /\ \A i \in 1..Len(uElems) : uElems[i].tags # <<>>
  /\ \A t \in DOMAIN tagMap : Range(tagMap[t]) \subseteq 1..Len(uElems)
  /\ Range(uRendered) \subseteq 1..Len(uElems)

\* C15: newElement with an empty tag list returns no element and leaves the
\* element list and the tag index as they were, so the next element created
\* with tags gets the jid it would have got without that call; nothing without
\* a tag is ever stored or indexed, so no update can be addressed to it.
C15_TaglessIsNoOp ==
  /\ []OnlyTaggedAddressable
  /\ [][\A kind \in UiKinds :
         UI(<<>>, kind) =>
           /\ uElem' = 0
           /\ uElems' = uElems
           /\ tagMap' = tagMap
           /\ \A tags \in TagLists \ {<<>>} :
                newElementLocked(uElems', tagMap', tags, kind).elem
                  = newElementLocked(uElems, tagMap, tags, kind).elem]_vars

\* One element is stored and the call after it had no tags: it returned nil
\* and the next jid is still 2.
C15_Witness ==
  /\ Len(uElems) = 1
  /\ uElem = 0
  /\ newElementLocked(uElems, tagMap, << <<"x">> >>, "input").elem = 2

\* ------------------------------------------------------------------------
\* Claims about Request.Send
\* ------------------------------------------------------------------------
\* The step in which a waiting Send returns.
SendReturns(c) == snd[c] = "waiting" /\ snd'[c] = "idle"

\* The message went to the process of connection c and to nobody else.
HandedOff(c) ==
  /\ nMsgs' = nMsgs + 1
  /\ proc[c] \in {"run", "drain"}
  /\ (proc[c] = "run" /\ sndMsg[c] # NilMsg) =>
       /\ proc'[c] = "handle"
       /\ sel'[c] = "send"
       /\ cur'[c] = sndMsg[c]
  /\ \A d \in Conns \ {c} : cur'[d] = cur[d] /\ proc'[d] = proc[d] /\ sel'[d] = sel[d]

\* C16: a Send that returns true has handed its message to the process of its
\* own connection in that step and to no other; a Send that returns false has
\* handed nothing over and a done signal is up; the loop takes a message from
\* sendCh only from a Send that returns true; and a Send that waits while a done
\* signal is up returns.
C16_SendReportsHandOff ==
  /\ [][\A c \in Conns :
          /\ SendReturns(c) =>
               IF sndRes'[c] = "true"
               THEN HandedOff(c)
               ELSE /\ sndRes'[c] = "false"
                    /\ Done(c)
                    /\ nMsgs' = nMsgs
                    /\ cur' = cur /\ proc' = proc /\ sel' = sel
          /\ (proc[c] = "run" /\ proc'[c] = "handle" /\ sel'[c] = "send") =>
               sndRes'[c] = "true" /\ snd'[c] = "idle"]_vars
  /\ \A c \in Conns : (snd[c] = "waiting" /\ Done(c)) ~> (snd[c] = "idle")

\* A message was handed over earlier; the last Send waited, nobody took its
\* message after the shutdown, and it returned false.
C16_Witness ==
  /\ sndRes[1] = "false"
  /\ snd[1] = "idle"
  /\ nMsgs >= 1
  /\ jawsDone
  /\ proc[1] = "done"

\* ------------------------------------------------------------------------
\* Claims about Request.Trigger
\* ------------------------------------------------------------------------
\* The trigger messages of connection 2 as the hub hands them on.
TrigMsgs ==
  {[Msg(id, "trigger", 2) EXCEPT !.Data = val] : id \in TrigIds, val \in TrigVals}

Queued(c, m) == \E i \in 1..Len(eventCall[c]) : eventCall[c][i] = m

Invoking(c, m) == ec[c] = "call" /\ ecCall[c] = m

TriggerFrame(f) == Len(f) >= 7 /\ SubSeq(f, 1, 7) = <<"T","r","i","g","g","e","r">>

\* No handler runs or waits for a trigger of its own connection, and no
\* trigger is on an outbound channel or on the wire.
TriggerNotEchoedNorSent ==
  \A c \in Conns :
    /\ ecCall[c].What = "trigger" => ecCall[c].from # c
    /\ \A i \in 1..Len(eventCall[c]) :
         eventCall[c][i].What = "trigger" => eventCall[c][i].from # c
    /\ \A i \in 1..Len(outbound[c]) : outbound[c][i].What # "trigger"
    /\ ~TriggerFrame(wire[c])

\* C17 as claimed: a trigger of connection 2 that has reached a running
\* connection with a handler for the id leads to that handler being invoked
\* with the trigger and its payload; no handler is invoked on the triggering
\* connection and no frame is produced for the trigger.
C17_TriggerInvokesEveryHandler ==
  /\ []TriggerNotEchoedNorSent
  /\ \A m \in TrigMsgs :
       (1 \in subs /\ proc[1] = "run" /\ HasHandler(1, m)
          /\ bcastCh[1] # <<>> /\ Head(bcastCh[1]) = m)
         ~> Invoking(1, m)

\* C17: a trigger is never queued or invoked on the connection it came from
\* and never reaches an outbound channel or the wire; the pass of the loop of
\* another connection over it queues the call when the id has a non-nil handler
\* and eventCallCh has room, drops it when the handler is nil, and leaves the
\* loop when eventCallCh is full; a queued trigger is invoked, with its payload,
\* unless the loop of that connection has left first.
C17_TriggerInvokesIfRoom ==
  /\ []TriggerNotEchoedNorSent
  /\ [][\A c \in Conns :
          (HandleStep(c) /\ cur[c].What = "trigger" /\ cur[c].from # c
             /\ cur[c].Elem \in DOMAIN elems[c]) =>
            /\ outbound'[c] = outbound[c]
            /\ IF ~HasHandler(c, cur[c])
               THEN eventCall'[c] = eventCall[c] /\ proc'[c] = "run"
               ELSE IF Len(eventCall[c]) < Cap(c)
               THEN eventCall'[c] = Append(eventCall[c], cur[c]) /\ proc'[c] = "run"
               ELSE eventCall'[c] = eventCall[c] /\ proc'[c] = "drain"]_vars
  /\ \A m \in TrigMsgs :
       Queued(1, m) ~> (Invoking(1, m) \/ proc[1] \in {"drain", "done"})

\* Connection 1 runs its handler for "1" with the trigger of connection 2 and
\* its payload.
C17_Witness ==
  /\ Invoking(1, [Msg("1", "trigger", 2) EXCEPT !.Data = <<"c">>])
  /\ proc[1] = "run"
  /\ outbound[1] = <<>>

\* ------------------------------------------------------------------------
\* Claims about Request.start
\* ------------------------------------------------------------------------
\* The remote side of hr is not the one the request was made for.
OtherRemote(hr) ==
  IF hr = NoRequest THEN remoteIP # NilIP ELSE remoteIP # hr.host

\* C18: start returns an error exactly when the remote address of the HTTP
\* request it is given (its host; none without a request) is not the one
\* recorded when the request object was made, and a start that returns an error
\* leaves the registry and every field of the request as they were.
C18_StartChecksRemote ==
  /\ [](startRes # "none" => (startRes = "err" <=> OtherRemote(startHr)))
  /\ [][\A hr \in HttpRequests :
          Start(hr) =>
            /\ startRes' = IF OtherRemote(hr) THEN "err" ELSE "nil"
            /\ elems' = elems
            /\ remoteIP' = remoteIP
            /\ connVars' = connVars]_vars

\* A handler was registered for a request made for host a; the websocket
\* request came from host b and start returned the error.
C18_Witness ==
  /\ remoteIP = "a"
  /\ startHr = [host |-> "b", port |-> "80"]
  /\ startRes = "err"
  /\ "1" \in DOMAIN elems[1]
  /\ elems[1]["1"] = "fn2"

\* ------------------------------------------------------------------------
\* Claims about Request.ServeHTTP
\* ------------------------------------------------------------------------
\* ConnectFn has returned an error on connection c.
ConnectFailed(c) == srv[c].ws /\ srv[c].err # NoErr

NothingStarted(c) ==
  /\ proc[c] = "new" /\ ec[c] = "new" /\ rd[c] = "new" /\ wr[c] = "new"
  /\ c \notin subs
  /\ unsub[c] = 0

\* What ServeHTTP has done by the time it stands at each of its statements.
FailedSoFar(c) ==
  /\ NothingStarted(c)
  /\ srv[c].at \in {"cancel", "recycle", "close", "returned"} =>
       srv[c].wrote = wsAppend(<<>>, FillAlert(srv[c].err))
  /\ srv[c].at \in {"recycle", "close", "returned"} =>
       ctxDone[c] /\ ctxCause[c] = srv[c].err
  /\ srv[c].at \in {"close", "returned"} =>
       elems[c] = EmptyRegistry /\ regOp.op = "recycle"
  /\ srv[c].closed = IF srv[c].at = "returned" THEN srv[c].err ELSE <<>>

\* C19: when ConnectFn returns an error, ServeHTTP starts no reader, writer,
\* dispatcher or process loop and makes no subscription; it passes one Alert frame
\* with the error to ws.Write, cancels the connection with that error, recycles
\* the request and closes the websocket with the error text, and it gets there.
C19_ConnectErrorPath ==
  /\ [](\A c \in Conns : ConnectFailed(c) => FailedSoFar(c))
  /\ [][\A c \in Conns : ConnectFailed(c) => wire'[c] \in {wire[c], AlertFrame}]_vars
  /\ \A c \in Conns : ConnectFailed(c) ~> (srv[c].at = "returned")

\* ServeHTTP has returned after a ConnectFn error on a request with a handler
\* registered: the alert is on the wire, the context is cancelled with the error,
\* the registry is empty and nothing was started.
C19_Witness ==
  /\ srv[1].at = "returned"
  /\ srv[1].err = ErrText
  /\ srv[1].closed = ErrText
  /\ wire[1] = AlertFrame
  /\ ctxDone[1] /\ ctxCause[1] = ErrText
  /\ elems[1] = EmptyRegistry
  /\ proc[1] = "new" /\ 1 \notin subs

\* ------------------------------------------------------------------------
\* Claims about wsReader
\* ------------------------------------------------------------------------
\* C20: a client frame that is not a text frame or that wsParse rejects (no
\* newline at the end, fewer than two tabs, unknown command, bad quoting) is
\* passed over by the reader: nothing is offered on the incoming channel, the
\* context is not cancelled, the loop and the other tasks are left alone and the
\* reader reads on, so that the next well-formed frame is handed to the loop.
C20_BadFrameDropped ==
  /\ [][\A typ \in FrameTypes, txt \in ClientFrames :
          ReaderReadBad(1, typ, txt) =>
            /\ rd'[1] = "read"
            /\ rdMsg' = rdMsg
            /\ ctxDone' = ctxDone /\ jawsDone' = jawsDone
            /\ procVars' = procVars /\ callerVars' = callerVars /\ writerVars' = writerVars
            /\ eventCall' = eventCall /\ outbound' = outbound]_vars
  /\ [](\A txt \in BadFrames : ~wsParse(txt).ok)
  /\ [](rdDropped[1] > 0 /\ rd[1] = "read" /\ wr[1] # "done" /\ nMsgs < MaxMsgs =>
          ENABLED (\E m \in IncomingMsgs(1) : ReaderRead(1, m)))
  /\ [](rdDropped[1] > 0 /\ rd[1] = "handoff" /\ proc[1] = "run" =>
          ENABLED ProcessRecvIncoming(1))

\* The reader passed over a frame and read on: the input frame that came after
\* it is the message the loop is handling.
C20_Witness ==
  /\ rdDropped[1] = 1
  /\ rd[1] = "read"
  /\ proc[1] = "handle"
  /\ sel[1] = "incoming"
  /\ cur[1].What = "input" /\ cur[1].Elem = "1"
  /\ ~ctxDone[1]

\* ------------------------------------------------------------------------
\* Typed input events
\* ------------------------------------------------------------------------
FloatAlphabet == {"5", "-", ".", "z"}

FloatInputs ==
  {p \o t : p \in {<<>>, <<"1">>, <<"-">>, <<"+">>}, t \in SeqsUpTo(FloatAlphabet, MaxData)}

BoolInputs ==
  TrueTexts \cup FalseTexts
    \cup {<<>>, <<"z">>, <<"y","e","s">>, <<"t","R","U","E">>, <<"2">>, <<"t"," ">>}

DateInputs ==
  {y \o <<"-">> \o m \o <<"-">> \o d :
     y \in {<<"2","0","2","3">>, <<"2","0","2","4">>},
     m \in {<<"0","2">>, <<"0","4">>, <<"1","3">>, <<"0","0">>, <<"4">>},
     d \in {<<"2","9">>, <<"3","0">>, <<"3","1">>, <<"0","0">>, <<"1">>}}
    \cup {<<>>, <<"z">>, <<"2","0","2","3","0","4","3","0">>,
          <<"2","0","2","3","-","0","4","-","3","0","T">>,
          <<"2","0","2","3","/","0","4","/","3","0">>}

StringInputs == {<<>>, <<"b">>, <<"o">>}

TypedInputs(kind) ==
  CASE kind = "float" -> FloatInputs
    [] kind = "bool"  -> BoolInputs
    [] kind = "date"  -> DateInputs
    [] kind = "string" -> StringInputs

TypedEvents == {"input", "click"}

\* What an event did: the value kept afterwards, whether the tag was marked
\* dirty, what was called, and the error returned.
Outcome(stored, dirty, called, ret) ==
  [stored |-> stored, dirty |-> dirty, called |-> called, ret |-> ret]

\* The typed handler or setter given by the application: it keeps the value
\* unless it returns an error.
Keep(stored, v, fnErr) == IF fnErr = NoErr THEN v ELSE stored

\* Variant of maybeInput: a payload that does not parse reaches the handler as
\* the zero value.
maybeInput_ZeroOnError(kind, stored, evt, val, fnErr) ==
  IF evt # "input" THEN Outcome(stored, FALSE, "none", NoErr)
  ELSE
  LET r == IF val # <<>> THEN ParseAs(kind, val) ELSE Parsed(ZeroValue(kind)) IN
  LET v == IF r.ok THEN r.v ELSE ZeroValue(kind) IN
  Outcome(Keep(stored, v, fnErr), FALSE, "typed", fnErr)

\* The EventFn made by maybeInputFloat, maybeInputBool and maybeInputDate.
maybeInput(kind, stored, evt, val, fnErr) ==
  IF evt # "input" THEN Outcome(stored, FALSE, "none", NoErr)
  ELSE
  LET r == IF val # <<>> THEN ParseAs(kind, val) ELSE Parsed(ZeroValue(kind)) IN
  IF ~r.ok THEN Outcome(stored, FALSE, "none", r.err)
  ELSE Outcome(Keep(stored, r.v, fnErr), FALSE, "typed", fnErr)

\* UiInputBool.JawsEvent
UiInputBoolJawsEvent(legacy, stored, evt, val, fnErr) ==
  IF legacy THEN Outcome(stored, FALSE, "eventfn", fnErr)
  ELSE IF evt # "input" THEN Outcome(stored, FALSE, "none", NoErr)
  ELSE
  LET r == IF val # <<>> THEN ParseBool(val) ELSE Parsed(FALSE) IN
  IF ~r.ok THEN Outcome(stored, FALSE, "none", r.err)
  ELSE Outcome(r.v, FALSE, "typed", NoErr)

\* UiHtml.JawsEvent with no ClickHandler and no EventHandler, the tag a
\* StringSetter, FloatSetter, BoolSetter or TimeSetter.
UiHtmlJawsEvent(legacy, kind, stored, evt, val, fnErr) ==
  IF legacy THEN Outcome(stored, FALSE, "eventfn", fnErr)
  ELSE IF evt # "input" THEN Outcome(stored, FALSE, "none", NoErr)
  ELSE
  LET r == IF val # <<>> THEN ParseAs(kind, val) ELSE Parsed(ZeroValue(kind)) IN
  IF ~r.ok THEN Outcome(stored, FALSE, "none", r.err)
  ELSE Outcome(Keep(stored, r.v, fnErr), TRUE, "typed", fnErr)

\* Variant of UiInputTextJawsEvent: the tag is marked dirty only when the
\* setter returned no error.
UiInputTextJawsEvent_CleanOnError(legacy, stored, evt, val, fnErr) ==
  IF legacy THEN Outcome(stored, FALSE, "eventfn", fnErr)
  ELSE IF evt # "input" THEN Outcome(stored, FALSE, "none", NoErr)
  ELSE Outcome(Keep(stored, val, fnErr), fnErr = NoErr, "typed", fnErr)

\* UiInputText.JawsEvent: JawsSetString, then Dirty(ui.Tag).
UiInputTextJawsEvent(legacy, stored, evt, val, fnErr) ==
  IF legacy THEN Outcome(stored, FALSE, "eventfn", fnErr)
  ELSE IF evt # "input" THEN Outcome(stored, FALSE, "none", NoErr)
  ELSE Outcome(Keep(stored, val, fnErr), TRUE, "typed", fnErr)

EventOutcome(ui, stored, evt, val, fnErr) ==
  CASE ui.via = "maybe"  -> maybeInput(ui.kind, stored, evt, val, fnErr)
    [] ui.via = "uibool" -> UiInputBoolJawsEvent(ui.legacy, stored, evt, val, fnErr)
    [] ui.via = "uihtml" -> UiHtmlJawsEvent(ui.legacy, ui.kind, stored, evt, val, fnErr)
    [] ui.via = "uitext" -> UiInputTextJawsEvent(ui.legacy, stored, evt, val, fnErr)

\* The event function of the element is called with an event.
TypedEvent(evt, val, fnErr) ==
  /\ LET o == EventOutcome(tUi, tStored, evt, val, fnErr) IN
       /\ tStored' = o.stored
       /\ tDirty' = o.dirty
       /\ tCalled' = o.called
       /\ tRet' = o.ret
  /\ tEvt' = evt
  /\ tIn' = val
  /\ UNCHANGED <<tUi, codecVars, expandVars, poolVars, connVars, uiVars>>

InitTyped ==
  InitConn /\ CodecIdle /\ ExpandIdle /\ PoolIdle /\ UIIdle /\ \E ui \in TypedUis : TypedStart(ui)

NextTyped ==
  \/ \E evt \in TypedEvents, val \in TypedInputs(tUi.kind), fnErr \in Errors :
       TypedEvent(evt, val, fnErr)

SpecTyped == InitTyped /\ [][NextTyped]_vars

\* ------------------------------------------------------------------------
\* Claims about typed input
\* ------------------------------------------------------------------------
\* The element's events go to its typed handler or setter.
TypedPath == ~tUi.legacy

\* C21: when an Input event with a non-empty payload that does not parse as
\* the element's type (float, bool, ISO-8601 date) reaches the typed path of an
\* element, the typed handler or setter is not called, the stored value is
\* what it was (and the tag is not marked dirty), and the event function
\* returns the parse error, which is not nil.
C21_ParseErrorNotApplied ==
  [][(tEvt' = "input" /\ TypedPath /\ tIn' # <<>> /\ ~ParseAs(tUi.kind, tIn').ok) =>
         /\ tCalled' = "none"
         /\ tStored' = tStored
         /\ ~tDirty'
         /\ tRet' = ErrSyntax /\ tRet' # NoErr]_vars

\* A date that does not exist was sent to an element that already kept a date
\* from an earlier event: the date is still there and the error came back.
C21_Witness ==
  /\ tUi.kind = "date" /\ tUi.via = "uihtml" /\ TypedPath
  /\ tEvt = "input"
  /\ tIn = <<"2","0","2","3","-","0","2","-","2","9">>
  /\ tStored = [year |-> 2024, month |-> 2, day |-> 29]
  /\ tCalled = "none"
  /\ tRet = ErrSyntax

\* ------------------------------------------------------------------------
\* Claims about recycle and requestPool
\* ------------------------------------------------------------------------
\* The Request holds nothing of its user: no handler, no ConnectFn, no Jaws,
\* key, initial request, context, remote address or session.
Cleared(c) ==
  /\ elems[c] = EmptyRegistry
  /\ rqf[c] = ZeroRequest
  /\ c = 1 => remoteIP = NilIP
  /\ c \notin sessReqs

\* C22: when recycle returns, the registry of the Request is empty and its
\* Jaws, JawsKey, connectFn, Initial, Context, remoteIP and session are
\* cleared; every Request in the pool is in that state, and a Request that
\* newRequest takes from the pool has no handler and no ConnectFn of an
\* earlier user.
C22_RecycleClears ==
  /\ [][Recycle(1) => Cleared(1)']_vars
  /\ [](\A c \in pool : Cleared(c))
  /\ [][(1 \in pool /\ 1 \notin pool') =>
          /\ elems'[1] = EmptyRegistry
          /\ rqf'[1].connectFn = "nil"
          /\ rqf'[1].Jaws]_vars

\* The Request was recycled while it held a handler or a ConnectFn, and is in
\* use again, about to be served, with nothing registered.
C22_Witness ==
  /\ rqPrev[1]
  /\ 1 \notin pool
  /\ rqf[1].Jaws
  /\ srv[1].at = "accept"
  /\ elems[1] = EmptyRegistry
  /\ rqf[1].connectFn = "nil"

\* ------------------------------------------------------------------------
\* MustTagExpand
\* ------------------------------------------------------------------------
\* MustTagExpand(rq, tag), tag being value 1 of the values in heap: the result
\* of TagExpand, or a panic with its error.
MustTagExpand ==
  /\ xOut = NotExpanded
  /\ xHeap' \in Heaps
  /\ LET r == TagExpand(xHeap', 1) IN
       xOut' = [res |-> r.res, err |-> r.err, panic |-> IF r.err # ErrNil THEN r.err ELSE "none"]
  /\ UNCHANGED <<codecVars, typedVars, poolVars, connVars, uiVars>>

InitExpand ==
  InitConn /\ CodecIdle /\ TypedIdle /\ PoolIdle /\ UIIdle /\ ExpandIdle

NextExpand ==
  \/ MustTagExpand

SpecExpand == InitExpand /\ [][NextExpand]_vars

\* A call of MustTagExpand runs.
FairExpand == WF_vars(MustTagExpand)

SpecExpandFair == SpecExpand /\ FairExpand

\* ------------------------------------------------------------------------
\* Claims about tag expansion
\* ------------------------------------------------------------------------
RECURSIVE Flatten(_, _, _), FlattenAll(_, _, _), Expandable(_, _, _)

\* The tags a value stands for, read off its shape down to a depth of fuel: nil
\* none, a Tag itself, a []Tag its members, a []interface{} the tags of its
\* members one after the other, a TagGetter the tags of what it returns (itself
\* if it returns itself).
Flatten(heap, id, fuel) ==
  LET n == heap[id] IN
  IF fuel = 0 THEN <<>>
  ELSE CASE n.t = "tag"    -> <<n.name>>
         [] n.t = "tags"   -> n.items
         [] n.t = "list"   -> FlattenAll(heap, n.items, fuel - 1)
         [] n.t = "getter" -> IF n.ret = id THEN <<GetterName(id)>>
                              ELSE Flatten(heap, n.ret, fuel - 1)
         [] OTHER          -> <<>>

FlattenAll(heap, items, fuel) ==
  IF items = <<>> THEN <<>>
  ELSE IF Len(items) = 1 THEN Flatten(heap, items[1], fuel)
  ELSE LET mid == Len(items) \div 2 IN
       FlattenAll(heap, SubSeq(items, 1, mid), fuel)
         \o FlattenAll(heap, SubSeq(items, mid + 1, Len(items)), fuel)

\* The value holds nothing that is no tag and nests no deeper than fuel levels.
Expandable(heap, id, fuel) ==
  LET n == heap[id] IN
  /\ fuel > 0
  /\ CASE n.t = "illegal" -> FALSE
       [] n.t = "getter"  -> n.ret = id \/ Expandable(heap, n.ret, fuel - 1)
       [] n.t = "list"    -> \A i \in 1..Len(n.items) : Expandable(heap, n.items[i], fuel - 1)
       [] OTHER           -> TRUE

ExpandDone == xOut # NotExpanded

TagsOf(heap) == Flatten(heap, 1, MaxTagNesting + 1)

WithinLimits(heap) == Expandable(heap, 1, MaxTagNesting + 1) /\ Len(TagsOf(heap)) <= MaxTagCount

\* C23: TagExpand flattens its argument in order: nil gives no tags, a Tag
\* itself, a []Tag its members in order, a []interface{} the expansions of its
\* members one after the other, a TagGetter the expansion of the tag it returns.
\* That is the result whenever there is no error, and there is no error for a
\* value that holds only tags, nests no deeper than 10 and holds no more than
\* 100 tags.
C23_ExpandFlattensInOrder ==
  ExpandDone =>
    /\ xOut.err = ErrNil => xOut.res = TagsOf(xHeap) /\ xOut.panic = "none"
    /\ WithinLimits(xHeap) => xOut.err = ErrNil

\* A slice of a TagGetter and a []Tag, the getter returning that []Tag: its
\* members come twice, in order.
C23_Witness ==
  /\ ExpandDone
  /\ xHeap[1] = Node("list", "", <<2, 3>>, 0)
  /\ xHeap[2] = Node("getter", "", <<>>, 3)
  /\ xHeap[3] = Node("tags", "", <<"b", "a">>, 0)
  /\ xOut.err = ErrNil
  /\ xOut.res = <<"b", "a", "b", "a">>

NoIllegal(heap) == \A id \in NodeIds : heap[id].t # "illegal"

\* The first k members of the slice at the root hold more than 100 tags, and a
\* member comes after them.
OverfullBeforeEnd(heap) ==
  /\ heap[1].t = "list"
  /\ Expandable(heap, 1, MaxTagNesting + 1)
  /\ \E k \in 1..(Len(heap[1].items) - 1) :
       Len(FlattenAll(heap, SubSeq(heap[1].items, 1, k), MaxTagNesting)) > MaxTagCount

\* C24 as stated: whenever more than 100 tags have been collected the
\* expansion has stopped with ErrTooManyTags.
C24_OverHundredIsError ==
  (ExpandDone /\ Len(xOut.res) > MaxTagCount) => xOut.err = ErrTooManyTags

\* C24: tag expansion always ends, also for a slice that holds itself and for
\* TagGetters that return each other in a cycle: a value that holds only tags
\* and nests deeper than 10, or whose members before the last hold more than
\* 100 tags, ends with ErrTooManyTags, and MustTagExpand panics with the error
\* TagExpand returned.
C24_ExpandEndsAtLimits ==
  /\ <>ExpandDone
  /\ [](ExpandDone =>
         /\ (NoIllegal(xHeap) /\ ~Expandable(xHeap, 1, MaxTagNesting + 1)) =>
              xOut.err = ErrTooManyTags
         /\ OverfullBeforeEnd(xHeap) => xOut.err = ErrTooManyTags
         /\ xOut.panic = (IF xOut.err # ErrNil THEN xOut.err ELSE "none"))

\* A slice whose only member is the slice itself, and two TagGetters that
\* return each other: the expansion ended with ErrTooManyTags.
C24_Witness ==
  /\ ExpandDone
  /\ \/ xHeap[1] = Node("list", "", <<1>>, 0)
     \/ xHeap[1] = Node("getter", "", <<>>, 2) /\ xHeap[2] = Node("getter", "", <<>>, 1)
  /\ xOut.err = ErrTooManyTags
  /\ xOut.panic = ErrTooManyTags

\* ------------------------------------------------------------------------
\* Claims about the teardown of Request.process
\* ------------------------------------------------------------------------
\* The handler of a call is running, or has just returned, on eventCaller.
InCall(c) == ec[c] = "call"

\* C25: outboundMsgCh is closed only after eventCaller has closed eventDoneCh,
\* that is after its last call has returned, and eventCaller never sends on
\* outboundMsgCh once it is closed: when a handler returns, during teardown or
\* not, the channel its alert is offered to is still open.
C25_CloseAfterDispatcher ==
  /\ [](\A c \in Conns : outClosed[c] => ec[c] = "done" /\ callClosed[c] /\ eventCall[c] = <<>>)
  /\ [][\A c \in Conns : (~outClosed[c] /\ outClosed'[c]) => ec[c] = "done"]_vars
  /\ [][\A c \in Conns : (InCall(c) /\ ~InCall(c)') => ~outClosed[c] /\ ~outClosed'[c]]_vars

\* The loop is in its teardown while a handler is still running, and the
\* outbound channel has room for the alert of that handler.
C25_Witness ==
  /\ proc[1] = "drain"
  /\ InCall(1)
  /\ Len(outbound[1]) < Cap(1)
  /\ ~outClosed[1]

\* The loop is in the deferred function of process.
Teardown(c) == proc[c] = "drain"

TornDown(c) == proc[c] = "done" /\ outClosed[c]

BlockedInSend(c) == snd[c] = "waiting"

BlockedInHandOff(c) == rd[c] = "handoff"

Running(c) == proc[c] \in {"run", "handle", "hook"}

LeavesRunning(c) == Running(c) /\ proc'[c] = "drain"

\* The causes the loop may leave for: a done signal, the closed incomingMsgCh,
\* a full eventCallCh or a full outboundMsgCh.
ListedCause(c) ==
  \/ jawsDone
  \/ ctxDone[c]
  \/ rd[c] = "done"
  \/ Len(eventCall[c]) >= Cap(c)
  \/ Len(outbound[c]) >= Cap(c)

\* A hook message for an element that is registered with a nil handler.
NilHook(c, m) == m.What = "hook" /\ GetEventFn(c, m.Elem).ok /\ GetEventFn(c, m.Elem).fn = "nil"

\* C27: the loop leaves the running state only for the shutdown signal, the
\* cancelled context, the closed incoming channel, a full handler-call queue
\* or a full outbound queue: no message handed to Send or broadcast makes it
\* leave by what it holds.
C27_LeavesOnlyForListedCauses ==
  [][\A c \in Conns : LeavesRunning(c) => ListedCause(c)]_vars

\* The loop leaves for a listed cause, for a nil *Message taken from rq.sendCh,
\* or for a hook message whose target has a nil handler.
C27_LeavesForCauseOrContent ==
  [][\A c \in Conns :
       LeavesRunning(c) =>
         \/ ListedCause(c)
         \/ proc[c] = "run" /\ outcome'[c] = "nilMsg"
         \/ proc[c] = "handle" /\ NilHook(c, cur[c]) /\ outcome'[c] = "panic"]_vars

\* The loop has left for a hook message with a nil handler while nothing else
\* was the matter.
C27_Witness ==
  /\ proc[1] = "drain"
  /\ outcome[1] = "panic"
  /\ ~Done(1)
  /\ rd[1] # "done"
  /\ outbound[1] = <<>>

\* The pass over a message that must be queued for its handler: it came from
\* the transport or is a trigger, it is not the connection's own, and its
\* target has a handler.
MustQueueStep(c) ==
  HandleStep(c) /\ EventMsg(c) /\ cur[c].from # c /\ HasHandler(c, cur[c])

\* C28: when eventCallCh is full as a call must be queued, the loop neither
\* waits nor grows the queue: the message is dropped and the loop returns, so
\* the number of queued calls never exceeds the capacity of the channel, which
\* is the capacity of outboundMsgCh.
C28_FullCallQueueTerminates ==
  /\ [](\A c \in Conns : Len(eventCall[c]) <= Cap(c))
  /\ [](\A c \in Conns : proc[c] = "handle" => ENABLED ProcessHandle(c))
  /\ [][\A c \in Conns :
          (MustQueueStep(c) /\ Len(eventCall[c]) >= Cap(c)) =>
            /\ eventCall'[c] = eventCall[c]
            /\ outbound'[c] = outbound[c]
            /\ ec'[c] = ec[c] /\ ecCall'[c] = ecCall[c]
            /\ proc'[c] = "drain"
            /\ callClosed'[c]
            /\ c \notin subs']_vars

\* Connection 1 has returned for a full eventCallCh: the queue holds as many
\* calls as it has room for and the message is in none of the channels.
C28_Witness ==
  /\ proc[1] = "drain"
  /\ outcome[1] = "eventCallFull"
  /\ Len(eventCall[1]) = Cap(1)
  /\ outbound[1] = <<>>

\* ------------------------------------------------------------------------
\* Claims about handler errors
\* ------------------------------------------------------------------------
\* The step in which a handler called by eventCaller returns an error.
ErrorReturn(c) == EventCallerReturn(c, ErrText)

HoldsAlert(q) == \E i \in 1..Len(q) : q[i].Elem = " alert"

\* C29: when a handler returns an error while outboundMsgCh is full,
\* eventCaller drops the alert and goes on to the next queued call without
\* waiting, and the drop ends nothing: the loop, the subscription, the channels
\* and the done signals are as they were.
C29_AlertDroppedWhenFull ==
  /\ [](\A c \in Conns : ec[c] = "call" => ENABLED ErrorReturn(c))
  /\ [](\A c \in Conns : (ec[c] = "wait" /\ eventCall[c] # <<>>) => ENABLED EventCallerRecv(c))
  /\ [][\A c \in Conns :
          (ErrorReturn(c) /\ Len(outbound[c]) >= Cap(c)) =>
            /\ outbound' = outbound
            /\ ec'[c] = "wait"
            /\ eventCall' = eventCall
            /\ UNCHANGED <<proc, subs, callClosed, outClosed, jawsDone, ctxDone>>]_vars

\* The handler of a client input has returned an error (the value it guards is
\* as it was) while outboundMsgCh was full of a state update: no alert is in the
\* channel, none was written, and the loop runs on.
C29_Witness ==
  /\ lastSeq[1] > 0
  /\ ec[1] = "wait"
  /\ value[1] = InitValue
  /\ Len(outbound[1]) >= Cap(1)
  /\ ~HoldsAlert(outbound[1])
  /\ wire[1] = <<>>
  /\ proc[1] = "run"
  /\ ~Done(1)

\* ------------------------------------------------------------------------
\* Claims about hook messages
\* ------------------------------------------------------------------------
HoldsHook(q) == \E i \in 1..Len(q) : q[i].What = "hook"

\* The pass of the loop body over a hook message that reaches the hook branch:
\* it is not the connection's own, its target is registered and it did not
\* come from the transport.
HookStep(c) ==
  HandleStep(c) /\ cur[c].What = "hook" /\ ~EventMsg(c) /\ cur[c].from # c
    /\ Registered(c, cur[c])

\* The handler of the hook message is running on the loop.
InHook(c) == proc[c] = "hook"

HookAlert(c) == Append(outbound[c], makeAlertDangerMessage(ErrText))

\* A hook message is neither queued for eventCaller nor written out.
HookNeverPassedOn ==
  \A c \in Conns :
    /\ ~HoldsHook(eventCall[c])
    /\ ecCall[c].What # "hook"
    /\ ~HoldsHook(outbound[c])

\* While the handler runs the loop holds the hook message and takes no other.
HookHeld ==
  \A c \in Conns :
    (InHook(c) /\ InHook(c)') => cur'[c] = cur[c] /\ sel'[c] = sel[c]

\* C30 as stated: a hook message for a registered target has its handler
\* called on the loop, once, nothing is queued or forwarded, and an alert goes
\* out exactly when the handler returns an error.
C30_HookAlertIffError ==
  /\ []HookNeverPassedOn
  /\ [][HookHeld]_vars
  /\ [][\A c \in Conns : HookStep(c) => InHook(c)' /\ cur'[c] = cur[c]]_vars
  /\ [][\A c \in Conns :
          /\ ProcessHookReturn(c, NoErr) => outbound' = outbound
          /\ ProcessHookReturn(c, ErrText) => outbound'[c] = HookAlert(c)]_vars

\* C30: a hook message for a target registered with a handler has that handler
\* called on the loop, once, before the loop takes another message; nothing is
\* queued for eventCaller and the hook message is never written out.  No error:
\* no alert, and the loop goes on.  An error: the alert is written if
\* outboundMsgCh has room; if it is full the loop returns; if a done signal has
\* fired the alert may be dropped.  With a nil handler the call panics and the
\* loop ends.
C30_HookInline ==
  /\ []HookNeverPassedOn
  /\ [][HookHeld]_vars
  /\ [][\A c \in Conns :
          HookStep(c) =>
            /\ eventCall' = eventCall /\ outbound' = outbound
            /\ IF HasHandler(c, cur[c])
               THEN InHook(c)' /\ cur'[c] = cur[c]
               ELSE proc'[c] = "drain" /\ outcome'[c] = "panic"]_vars
  /\ [][\A c \in Conns :
          /\ (InHook(c) /\ ~InHook(c)') =>
                ProcessHookReturn(c, NoErr) \/ ProcessHookReturn(c, ErrText)
          /\ ProcessHookReturn(c, NoErr) =>
                outbound' = outbound /\ eventCall' = eventCall /\ proc'[c] = "run"
          /\ ProcessHookReturn(c, ErrText) =>
                /\ eventCall' = eventCall
                /\ \/ /\ Len(outbound[c]) < Cap(c)
                      /\ outbound'[c] = HookAlert(c)
                      /\ proc'[c] = "run"
                   \/ /\ Done(c)
                      /\ outbound' = outbound
                      /\ proc'[c] = "run"
                   \/ /\ ~Done(c) /\ Len(outbound[c]) >= Cap(c)
                      /\ outbound' = outbound
                      /\ proc'[c] = "drain"]_vars

\* The one message connection 1 was given is a hook message whose handler
\* returned an error: its alert is in outboundMsgCh, nothing is queued, and the
\* loop is back at its select.
C30_Witness ==
  /\ nMsgs = 1
  /\ outcome[1] = "forwarded"
  /\ outbound[1] = <<makeAlertDangerMessage(ErrText)>>
  /\ eventCall[1] = <<>>
  /\ ec[1] = "wait"
  /\ proc[1] = "run"

\* ------------------------------------------------------------------------
\* Claims about wsReader and wsWriter
\* ------------------------------------------------------------------------
\* wsReader has returned: its deferred close(incomingMsgCh) has run.
IncomingClosed(c) == rd[c] = "done"

\* The step in which wsReader returns and closes incomingMsgCh.
ReaderExits(c) == ~IncomingClosed(c) /\ IncomingClosed(c)'

InTeardown(c) == proc[c] \in {"drain", "done"}

\* C31: wsReader leaves on a done signal during its hand-off or on a read
\* error; either way incomingMsgCh is closed, once, and nothing is offered on
\* it afterwards; the loop that takes from the closed channel returns into its
\* teardown, and once the channel is closed the loop does enter teardown.
C31_ReaderClosesIncoming ==
  /\ [][\A c \in Conns :
          /\ ReaderExits(c) =>
                \/ rd[c] = "handoff" /\ Done(c) /\ ReaderAbort(c)
                \/ rd[c] = "read" /\ ReaderReadError(c)
          /\ IncomingClosed(c) => IncomingClosed(c)' /\ rdMsg'[c] = NilMsg
          /\ (rd[c] = "handoff" /\ rd'[c] = "read") => proc[c] \in {"run", "drain"}
          /\ (ProcessRecvIncoming(c) /\ IncomingClosed(c)) =>
                /\ proc'[c] = "drain" /\ outcome'[c] = "incomingClosed"
                /\ c \notin subs' /\ callClosed'[c]]_vars
  /\ [](\A c \in Conns : IncomingClosed(c) => rdMsg[c] = NilMsg)
  /\ [](\A c \in Conns : (IncomingClosed(c) /\ proc[c] = "run") => ENABLED ProcessRecvIncoming(c))
  /\ IncomingClosed(1) ~> InTeardown(1)

\* wsReader of connection 1 gave up its hand-off on the shutdown signal, and
\* the loop took the closed channel and is in its teardown.
C31_Witness ==
  /\ IncomingClosed(1)
  /\ jawsDone /\ ~ctxDone[1]
  /\ outcome[1] = "incomingClosed"
  /\ InTeardown(1)

WriterExits(c) == wr[c] # "done" /\ wr'[c] = "done"

\* The context is cancelled in this step with err as its cause, or it was
\* cancelled before and keeps its cause.
CalledCcf(c, err) ==
  /\ ctxDone'[c]
  /\ ctxCause'[c] = IF ctxDone[c] THEN ctxCause[c] ELSE err

NoCcf(c) == ctxDone'[c] = ctxDone[c] /\ ctxCause'[c] = ctxCause[c]

\* A pump of connection c has failed and cancelled the context with its error.
PumpFailed(c) == ctxDone[c] /\ ctxCause[c] \in {ErrRead, ErrWrite}

\* C32: a pump whose ws.Read or ws.Write fails calls the cancel function with
\* the error, in the step in which it returns and so once; after that the
\* loop, eventCaller and the other pump all exit.  A pump that returns on a
\* done signal or on the closed outbound channel does not call it, and a pump
\* that has returned stays so.
C32_FailingPumpCancels ==
  /\ [][\A c \in Conns :
          /\ (ReaderExits(c) /\ rd[c] = "read") => CalledCcf(c, ErrRead)
          /\ (ReaderExits(c) /\ rd[c] = "handoff") => NoCcf(c)
          /\ (WriterExits(c) /\ WriterWriteError(c)) => CalledCcf(c, ErrWrite)
          /\ (WriterExits(c) /\ ~WriterWriteError(c)) => NoCcf(c)
          /\ rd[c] = "done" => rd'[c] = "done"
          /\ wr[c] = "done" => wr'[c] = "done"]_vars
  /\ PumpFailed(1) ~> AllExited(1)

\* ws.Read failed on connection 1 while nothing else was the matter; the
\* context carries the read error and all four tasks have exited.
C32_Witness ==
  /\ ctxCause[1] = ErrRead
  /\ ~jawsDone
  /\ AllExited(1)

PumpsExited(c) == rd[c] = "done" /\ wr[c] = "done"

\* C33: once the context of connection 1 is cancelled or the shutdown signal
\* has fired, the writer can return from its select, a reader in the hand-off
\* can give it up, a reader in ws.Read returns once the context is cancelled
\* or the writer has closed the websocket, and both pumps do return.
C33_PumpsLeaveAfterDone ==
  /\ [](Done(1) /\ wr[1] = "run" => ENABLED WriterExit(1))
  /\ [](Done(1) /\ rd[1] = "handoff" => ENABLED ReaderAbort(1))
  /\ [](rd[1] = "read" /\ (ctxDone[1] \/ wr[1] = "done") => ENABLED ReaderReadError(1))
  /\ (Done(1) /\ wr[1] = "run") ~> wr[1] = "done"
  /\ (Done(1) /\ rd[1] = "handoff") ~> rd[1] = "done"
  /\ (Done(1) /\ rd[1] = "read") ~> rd[1] = "done"
  /\ Done(1) ~> PumpsExited(1)

\* The shutdown signal alone, the context never cancelled by anyone but the
\* reader whose ws.Read failed on the closed websocket: both pumps are gone.
C33_Witness ==
  /\ jawsDone
  /\ ctxCause[1] = ErrRead
  /\ PumpsExited(1)

\* ------------------------------------------------------------------------
\* The four tasks with room for two messages in outboundMsgCh
\* ------------------------------------------------------------------------
\* Connection 1 in mid-run with one update in outboundMsgCh, as in InitLive.
InitWire ==
  /\ ConnStartWith([c \in Conns |-> IF c = 1 THEN ChSize + 1 ELSE ChSize],
                   [c \in Conns |-> IF c = 1 THEN <<Msg("1", "value", 0)>> ELSE <<>>])
  /\ CodecIdle /\ OtherIdle
  /\ UIIdle

SpecWire == InitWire /\ [][NextLive]_vars

\* The frame of the message at the head of outboundMsgCh.
HeadFrame(c) == Format(wsMsgOf(Head(outbound[c])))

\* The message at the head of outboundMsgCh leaves it.
HeadTaken(c) == outbound[c] # <<>> /\ outbound'[c] = Tail(outbound[c])

\* A message is added behind the ones outboundMsgCh holds.
Placed(c) ==
  /\ Len(outbound'[c]) = Len(outbound[c]) + 1
  /\ SubSeq(outbound'[c], 1, Len(outbound[c])) = outbound[c]

\* C34: outboundMsgCh changes only by a message placed behind the others or
\* by wsWriter taking the oldest; a frame that goes out is the frame of the
\* oldest message, which leaves the channel with it; a failed write ends the
\* writer; and a writer that has returned writes nothing and takes nothing.
C34_FramesInChannelOrder ==
  [][\A c \in Conns :
       /\ outbound'[c] = outbound[c] \/ Placed(c) \/ HeadTaken(c)
       /\ outbound'[c] # outbound[c] /\ ~Placed(c) =>
             /\ wr[c] = "run"
             /\ \/ wire'[c] = HeadFrame(c) /\ wr'[c] = "run"
                \/ wire'[c] = wire[c] /\ wr'[c] = "done" /\ ctxDone'[c]
       /\ wire'[c] # wire[c] => HeadTaken(c) /\ wire'[c] = HeadFrame(c)
       /\ WriterWrite(c) => HeadTaken(c) /\ wire'[c] = HeadFrame(c)
       /\ wr[c] = "done" =>
             /\ wr'[c] = "done"
             /\ wire'[c] = wire[c]
             /\ outbound'[c] = outbound[c] \/ Placed(c)]_vars

TwoFrames(c) == Len(outbound[c]) = 2 /\ outbound[c][1] # outbound[c][2]

\* Two different messages wait in outboundMsgCh of a writer that has written
\* a frame before.
C34_Witness ==
  /\ TwoFrames(1)
  /\ wire[1] # <<>>
  /\ wr[1] = "run"

\* A write has failed with a message still in outboundMsgCh.
C34_WitnessWriteError ==
  /\ wr[1] = "done"
  /\ ctxCause[1] = ErrWrite
  /\ outbound[1] # <<>>

\* ------------------------------------------------------------------------
\* Claims about the handlers that are called
\* ------------------------------------------------------------------------
\* The loop has called the handler of the hook message it holds and the
\* handler was nil.
CalledNil(c) == outcome[c] = "panic"

\* Every call eventCaller holds or makes is for an element with a handler.
QueuedHaveHandler(c) ==
  /\ \A i \in 1..Len(eventCall[c]) : HasHandler(c, eventCall[c][i])
  /\ ec[c] = "call" => HasHandler(c, ecCall[c])

\* C35: neither the loop nor eventCaller ever calls a nil handler: the calls
\* that are queued or running are for elements with a handler, a hook handler
\* that is running inline is one, and the loop never calls nil for a hook.
C35_NeverCallsNil ==
  \A c \in Conns :
    /\ QueuedHaveHandler(c)
    /\ proc[c] = "hook" => HasHandler(c, cur[c])
    /\ ~CalledNil(c)

\* The calls eventCaller makes and the hook handlers that run are never nil,
\* and the loop calls nil only for a hook message whose target is registered
\* without a handler.
C35_NilOnlyOnHookPath ==
  /\ [](\A c \in Conns : QueuedHaveHandler(c) /\ (proc[c] = "hook" => HasHandler(c, cur[c])))
  /\ [][\A c \in Conns : ~CalledNil(c) /\ CalledNil(c)' =>
                            proc[c] = "handle" /\ NilHook(c, cur[c]) /\ ~EventMsg(c)]_vars

\* The loop has called a nil handler for a hook message (element "2" is the
\* one registered without a handler), while eventCaller is running a handler
\* that is not nil.
C35_Witness ==
  /\ CalledNil(1)
  /\ elems[1]["2"] = "nil"
  /\ ec[1] = "call"
  /\ HasHandler(1, ecCall[1])

\* The oldest call leaves eventCallCh.
CallTaken(c) == eventCall[c] # <<>> /\ eventCall'[c] = Tail(eventCall[c])

\* The loop puts a call behind the ones eventCallCh holds.
CallQueued(c) ==
  /\ Running(c)
  /\ Len(eventCall'[c]) = Len(eventCall[c]) + 1
  /\ SubSeq(eventCall'[c], 1, Len(eventCall[c])) = eventCall[c]

\* eventCaller starts the handler of the oldest queued call.
Invoked(c) ==
  /\ eventCall[c] # <<>>
  /\ ec[c] = "wait"
  /\ ec'[c] = "call"
  /\ ecCall'[c] = Head(eventCall[c])

\* The drain loop of process takes the oldest queued call and drops it.
Discarded(c) ==
  /\ proc[c] = "drain"
  /\ ec'[c] = ec[c]
  /\ ecCall'[c] = ecCall[c]

\* eventCaller has closed eventDoneCh.
EventDone(c) == ec[c] = "done"

\* C36: every call the loop has queued is invoked, once, before eventCaller
\* closes eventDoneCh: a call leaves eventCallCh only by its handler being
\* started, also once the teardown has begun.
C36_EveryQueuedCallInvoked ==
  /\ [][\A c \in Conns :
          eventCall'[c] # eventCall[c] => CallQueued(c) \/ (CallTaken(c) /\ Invoked(c))]_vars
  /\ [](\A c \in Conns : EventDone(c) => eventCall[c] = <<>>)

\* A queued call leaves eventCallCh either by its handler being started, which
\* happens once since the call leaves with it, or, in the teardown only, by
\* the drain loop dropping it; while the loop runs every call that leaves is
\* invoked; eventCaller has closed eventDoneCh only with eventCallCh closed
\* and empty and starts nothing after; no call stays queued forever.
C36_QueuedCallInvokedOrDropped ==
  /\ [][\A c \in Conns :
          /\ eventCall'[c] # eventCall[c] =>
                \/ CallQueued(c)
                \/ CallTaken(c) /\ Invoked(c)
                \/ CallTaken(c) /\ Discarded(c)
          /\ CallTaken(c) /\ Running(c) => Invoked(c)
          /\ ec[c] # "call" /\ ec'[c] = "call" => Invoked(c) /\ CallTaken(c)
          /\ EventDone(c) => EventDone(c)' /\ ecCall'[c] = NilMsg]_vars
  /\ [](\A c \in Conns : EventDone(c) => eventCall[c] = <<>> /\ callClosed[c])
  /\ eventCall[1] # <<>> ~> eventCall[1] = <<>>
  /\ InTeardown(1) ~> EventDone(1)

\* The teardown of connection 1 has begun while a call is queued behind a
\* handler that is running.
C36_Witness ==
  /\ proc[1] = "drain"
  /\ eventCall[1] # <<>>
  /\ ec[1] = "call"

\* eventCaller is inside call.fn; the loop is inside the fn of a hook message.
DispatcherCalls(c) == ec[c] = "call"

\* C37: at most one handler of a connection runs at a time: the loop is not
\* inside a hook handler while eventCaller is inside a handler.
C37_OneHandlerAtATime ==
  \A c \in Conns : ~(InHook(c) /\ DispatcherCalls(c))

\* Each of the two tasks runs one handler at a time: eventCaller starts a
\* handler only when it is waiting, and keeps the call until the handler
\* returns; the loop starts a hook handler only from its pass over a hook
\* message and holds that message until the handler returns.  Nothing keeps
\* the two tasks apart.
C37_OneHandlerPerTask ==
  [][\A c \in Conns :
       /\ DispatcherCalls(c)' /\ ecCall'[c] # ecCall[c] => ec[c] = "wait" /\ Invoked(c)
       /\ DispatcherCalls(c) => DispatcherCalls(c)' \/ (ec'[c] = "wait" /\ ecCall'[c] = NilMsg)
       /\ InHook(c)' /\ ~InHook(c) =>
             proc[c] = "handle" /\ cur[c].What = "hook" /\ HasHandler(c, cur[c]) /\ cur'[c] = cur[c]
       /\ InHook(c) /\ InHook(c)' => cur'[c] = cur[c]
       /\ InHook(c) => proc'[c] \in {"hook", "run", "drain"}]_vars

\* The handler of element "1" runs twice at once on connection 1: inline for
\* a hook message and in eventCaller for a client event.
C37_Witness ==
  /\ InHook(1)
  /\ DispatcherCalls(1)
  /\ cur[1].Elem = "1"
  /\ ecCall[1].Elem = "1"

\* ------------------------------------------------------------------------
\* Claims about a setter that returns an error
\* ------------------------------------------------------------------------
\* The element's Input events go to the setter of its tag.
SetterPath == tUi.via \in {"uihtml", "uitext"} /\ ~tUi.legacy

\* The event just handled was an Input event and the setter, called with its
\* payload, returned an error.
SetterFailed == tEvt = "input" /\ tCalled = "typed" /\ tRet # NoErr

\* C38: an Input event whose setter returns an error does not mark the
\* element's tag dirty.
C38_SetterErrorNotDirty ==
  [][SetterPath /\ SetterFailed' => ~tDirty']_vars

\* An Input event that reaches the setter marks the tag dirty whether or not
\* the setter returns an error; the error is what the event function returns
\* and the value stays what it was.  Only an event that does not reach the
\* setter, for a payload that does not parse, leaves the tag unmarked.
C38_SetterErrorStillDirty ==
  [][SetterPath /\ tEvt' = "input" =>
       /\ tCalled' = "typed" => tDirty'
       /\ SetterFailed' => tDirty' /\ tStored' = tStored /\ tRet' = ErrText
       /\ tCalled' # "typed" =>
             /\ ~tDirty' /\ tStored' = tStored /\ tRet' = ErrSyntax
             /\ ~ParseAs(tUi.kind, tIn').ok]_vars

\* The setter of a text input has refused "o": the value is still "b" from
\* the event before, the error came back, and the tag is marked dirty.
C38_Witness ==
  /\ tUi.via = "uitext" /\ SetterPath
  /\ SetterFailed
  /\ tIn = <<"o">>
  /\ tStored = <<"b">>
  /\ tDirty
====
